---- MODULE Spec2Model ----
(***************************************************************************)
(* A model of the in-memory, HTTP-backed file system engine:                *)
(*   - the entry tree (Directory / File / HttpFile) with Stat records,      *)
(*   - AltStream objects and the download tasks that fill them,             *)
(*   - EntryHandle creation and disposal (impl Drop for EntryHandle),       *)
(*   - MemFsHandler::create_file with path resolution (find_dir_entry),     *)
(*   - the bounded poll loop wait_with_timeout used by read / get-info,     *)
(*   - the lock acquisition order of the handlers.                          *)
(***************************************************************************)
EXTENDS Integers, Sequences, FiniteSets, TLC

(***************************************************************************)
(* Bounds of the model.                                                     *)
(***************************************************************************)
\* create_file calls per behaviour (id_counter runs from 1 to MaxIndex + 1)
MaxIndex == 2
\* components of a request path
MaxDepth == 2
\* bytes of a remote body
MaxBody == 1

\* component names of request paths
Names == {"a"}

(***************************************************************************)
(* Small maps (HashMap): functions with a finite domain.                    *)
(***************************************************************************)
EmptyMap == [k \in {} |-> 0]

MapPut(m, k, v) == [x \in (DOMAIN m) \cup {k} |-> IF x = k THEN v ELSE m[x]]

MapDel(m, k) == [x \in (DOMAIN m) \ {k} |-> m[x]]

MapKeysOf(m, v) == {k \in DOMAIN m : m[k] = v}

MapVals(m) == {m[k] : k \in DOMAIN m}

(***************************************************************************)
(* Request inputs of create_file.                                           *)
(***************************************************************************)
\* FILE_SUPERSEDE .. FILE_OVERWRITE_IF
Dispositions == {"Supersede", "Open", "Create", "OpenIf", "Overwrite", "OverwriteIf"}

\* create_options: FILE_DIRECTORY_FILE, FILE_NON_DIRECTORY_FILE or neither
DirOptions == {"none", "dir", "nondir"}

\* desired_access: exactly FILE_READ_ATTRIBUTES, a read of data, or write/append
Accesses == {"attr", "read", "write"}

\* file_attributes, as the set of the flags that are set
AttrSets == {{}, {"READONLY"}}

\* the part of a leaf name after ':' as FullName::new parses it
NoStream == [name |-> "", type |-> "None"]

StreamInfos == {NoStream, [name |-> "s", type |-> "Data"]}

\* request paths: the components between backslashes
Paths == UNION {[1..n -> Names] : n \in 0..MaxDepth}

Requests ==
  [path : Paths, stream : StreamInfos, disp : Dispositions, dirOpt : DirOptions,
   doc : BOOLEAN, access : Accesses, attrs : AttrSets]

\* the requests the host threads of the model issue: the options that only
\* select an error return (write access, FILE_NON_DIRECTORY_FILE, the
\* READONLY attribute) are left to the checks that range over Requests
HostRequests ==
  {r \in Requests : r.access # "write" /\ r.dirOpt # "nondir" /\ r.attrs = {}}

\* a child-map key: the leaf name, and for a fetch-through entry the raw
\* ":stream" suffix that create_new_http leaves in the key
PlainKey(name) == <<name, "", "None">>

RawKey(name, si) == <<name, si.name, si.type>>

\* the key create_new_http uses in Stat.alt_streams: the whole file name
FullNameKey == "$path"

(***************************************************************************)
(* State.                                                                   *)
(***************************************************************************)
VARIABLES
  id_counter,   \* MemFsHandler.id_counter
  entries,      \* arena of entries: Seq of entry records, entries[1] is the root
  streams,      \* arena of AltStream records
  handles,      \* live EntryHandles: index -> [entry, alt_stream, delete_on_close]
  jobs,         \* download jobs: index -> [stream, entry, full, st, declared, total, sent]
  aborted,      \* a panic (failed unwrap / assert) has ended the process
  disposed,     \* history: the handles dropped so far, in the order of their drops
  wt,           \* the host call that is inside wait_with_timeout, and its result
  lk,           \* the threads and the locks of the lock-step view of the handlers
  pool          \* the worker pool: its queue, its workers, its jobs and its teardown

vars == <<id_counter, entries, streams, handles, jobs, aborted, disposed, wt, lk, pool>>

Root == 1

\* Stat::new plus the entry's own fields
NewEntry(kind, index, attrs, parent) ==
  [kind |-> kind, id |-> index, attrs |-> attrs,
   handle_count |-> 0, delete_pending |-> FALSE, parent |-> parent,
   alt_streams |-> EmptyMap, children |-> EmptyMap,
   data |-> <<>>, download_pending |-> FALSE, mtime |-> 0, atime |-> 0]

\* AltStream::new
NewAltStream ==
  [handle_count |-> 0, delete_pending |-> FALSE, data |-> <<>>, content_length |-> 0]

\* the file system as one value, for the handlers written as operators
Fs ==
  [id_counter |-> id_counter, entries |-> entries, streams |-> streams,
   handles |-> handles, jobs |-> jobs, aborted |-> aborted, disposed |-> disposed]

\* MemFsHandler::new
InitFs ==
  [id_counter |-> 1,
   entries |-> <<NewEntry("Directory", 0, {}, 0)>>,
   streams |-> <<>>,
   handles |-> EmptyMap,
   jobs |-> EmptyMap,
   aborted |-> FALSE,
   disposed |-> <<>>]

\* Stat::update_atime / Stat::update_mtime: the stamps count their updates
StatUpdateAtime(e) == [e EXCEPT !.atime = @ + 1]

StatUpdateMtime(e) == [StatUpdateAtime(e) EXCEPT !.mtime = @ + 1]

(***************************************************************************)
(* Ownership: an entry is kept alive by a handle (Arc<Entry>) or by the     *)
(* child map of a directory that is itself alive; Stat.parent is a Weak.    *)
(***************************************************************************)
HandlesOn(fs, e) == {h \in DOMAIN fs.handles : fs.handles[h].entry = e}

RECURSIVE AliveIn(_, _, _)
AliveIn(fs, e, fuel) ==
  \/ e = Root
  \/ HandlesOn(fs, e) # {}
  \/ /\ fuel > 0
     /\ \E p \in 1..Len(fs.entries) :
          /\ p # e
          /\ e \in MapVals(fs.entries[p].children)
          /\ AliveIn(fs, p, fuel - 1)

Alive(fs, e) == AliveIn(fs, e, MaxDepth + 1)

\* Weak::upgrade of Stat.parent: 0 stands for None
Upgrade(fs, e) ==
  LET p == fs.entries[e].parent
  IN IF p # 0 /\ Alive(fs, p) THEN p ELSE 0

(***************************************************************************)
(* path.rs: find_dir_entry with create_dir_entry.                           *)
(***************************************************************************)
\* MemFsHandler::create_dir_entry: a new empty Directory under `name`
CreateDirEntry(ents, index, cur, name) ==
  LET new == Len(ents) + 1
      withChild == [ents EXCEPT ![cur].children = MapPut(@, PlainKey(name), new)]
  IN Append(withChild, NewEntry("Directory", index, {}, cur))

\* a find_dir_entry that reports a missing component instead of creating it
RECURSIVE FindDirEntryNoCreate(_, _, _, _)
FindDirEntryNoCreate(ents, index, cur, path) ==
  IF path = <<>>
  THEN [entries |-> ents, dir |-> cur, status |-> "OK"]
  ELSE LET key == PlainKey(Head(path))
       IN IF key \in DOMAIN ents[cur].children /\ ents[ents[cur].children[key]].kind = "Directory"
          THEN FindDirEntryNoCreate(ents, index, ents[cur].children[key], Tail(path))
          ELSE [entries |-> ents, dir |-> 0, status |-> "OBJECT_PATH_NOT_FOUND"]

\* find_dir_entry: lines 105-164
RECURSIVE FindDirEntry(_, _, _, _)
FindDirEntry(ents, index, cur, path) ==
  IF path = <<>>
  THEN [entries |-> ents, dir |-> cur, status |-> "OK"]
  ELSE LET name == Head(path)
           key == PlainKey(name)
           found == key \in DOMAIN ents[cur].children
           ents2 == IF found THEN ents ELSE CreateDirEntry(ents, index, cur, name)
           child == ents2[cur].children[key]
       IN IF ents2[child].kind = "Directory"
          THEN FindDirEntry(ents2, index, child, Tail(path))
          ELSE [entries |-> ents2, dir |-> 0, status |-> "OBJECT_PATH_NOT_FOUND"]

(***************************************************************************)
(* entry_handler.rs: EntryHandle::new and impl Drop for EntryHandle.        *)
(***************************************************************************)
\* handle_count is a u32: `-= 1` at 0 underflows (a panic in a debug build,
\* 2^32 - 1 in a release build); the model keeps -1 for that outcome
DecU32(x) == x - 1

\* EntryHandle::new: `stream` is 0 for None
EntryHandleNew(fs, index, entry, stream, doc) ==
  [fs EXCEPT
     !.entries[entry].handle_count = @ + 1,
     !.streams = IF stream = 0 THEN @
                 ELSE [@ EXCEPT ![stream].handle_count = @ + 1],
     !.handles = MapPut(@, index,
                   [entry |-> entry, alt_stream |-> stream, delete_on_close |-> doc])]

\* a drop() without the else-branch that clears delete_pending
DropEntryWithNoReset(fs, h, parent) ==
  LET hd == fs.handles[h]
      e == hd.entry
      pending == IF hd.delete_on_close /\ hd.alt_stream = 0
                 THEN TRUE ELSE fs.entries[e].delete_pending
      count == DecU32(fs.entries[e].handle_count)
      marked == [fs EXCEPT !.entries[e].delete_pending = pending,
                           !.entries[e].handle_count = count]
  IN IF pending /\ count = 0
     THEN IF parent = 0
          THEN [marked EXCEPT !.aborted = TRUE]
          ELSE LET stamped == [marked EXCEPT !.entries[parent] = StatUpdateMtime(@)]
                   keys == MapKeysOf(stamped.entries[parent].children, e)
               IN IF keys = {}
                  THEN [stamped EXCEPT !.aborted = TRUE]
                  ELSE [stamped EXCEPT !.entries[parent].children =
                                          MapDel(@, CHOOSE k \in keys : TRUE)]
     ELSE marked

\* drop() with the parent reference it read first: lines 85-112
DropEntryWith(fs, h, parent) ==
  LET hd == fs.handles[h]
      e == hd.entry
      pending == IF hd.delete_on_close /\ hd.alt_stream = 0
                 THEN TRUE ELSE fs.entries[e].delete_pending
      count == DecU32(fs.entries[e].handle_count)
      marked == [fs EXCEPT !.entries[e].delete_pending = pending,
                           !.entries[e].handle_count = count]
  IN IF pending /\ count = 0
     THEN IF parent = 0
          THEN [marked EXCEPT !.aborted = TRUE]
          ELSE LET stamped == [marked EXCEPT !.entries[parent] = StatUpdateMtime(@)]
                   keys == MapKeysOf(stamped.entries[parent].children, e)
               IN IF keys = {}
                  THEN [stamped EXCEPT !.aborted = TRUE]
                  ELSE [stamped EXCEPT !.entries[parent].children =
                                          MapDel(@, CHOOSE k \in keys : TRUE)]
     ELSE [marked EXCEPT !.entries[e].delete_pending = FALSE]

\* a drop() that leaves delete_pending set when other handles remain
DropEntryPartKeepsPending(fs, h) ==
  LET e == fs.handles[h].entry
      was == fs.handles[h].delete_on_close /\ fs.handles[h].alt_stream = 0
      r == DropEntryWith(fs, h, Upgrade(fs, e))
  IN IF was /\ r.entries[e].handle_count > 0
     THEN [r EXCEPT !.entries[e].delete_pending = TRUE]
     ELSE r

\* the entry part of drop(): lines 82-112
DropEntryPart(fs, h) == DropEntryWith(fs, h, Upgrade(fs, fs.handles[h].entry))

\* a stream part that clears the stream's delete_pending while other handles
\* remain, as the entry part does for the Stat
DropStreamPartResetsPending(fs, h) ==
  LET hd == fs.handles[h]
      e == hd.entry
      s == hd.alt_stream
  IN IF s = 0 \/ fs.aborted
     THEN fs
     ELSE LET pending == IF hd.delete_on_close THEN TRUE ELSE fs.streams[s].delete_pending
              count == DecU32(fs.streams[s].handle_count)
              marked == [fs EXCEPT !.entries[e].mtime = @ + 1,
                                   !.streams[s].delete_pending = pending,
                                   !.streams[s].handle_count = count]
              keys == MapKeysOf(marked.entries[e].alt_streams, s)
          IN IF pending /\ count = 0
             THEN IF keys = {}
                  THEN [marked EXCEPT !.aborted = TRUE]
                  ELSE [marked EXCEPT
                          !.entries[e].alt_streams = MapDel(@, CHOOSE k \in keys : TRUE),
                          !.entries[e].atime = @ + 1]
             ELSE [marked EXCEPT !.streams[s].delete_pending = FALSE]

\* the stream part of drop(): lines 113-139
DropStreamPart(fs, h) ==
  LET hd == fs.handles[h]
      e == hd.entry
      s == hd.alt_stream
  IN IF s = 0 \/ fs.aborted
     THEN fs
     ELSE LET pending == IF hd.delete_on_close THEN TRUE ELSE fs.streams[s].delete_pending
              count == DecU32(fs.streams[s].handle_count)
              marked == [fs EXCEPT !.entries[e].mtime = @ + 1,
                                   !.streams[s].delete_pending = pending,
                                   !.streams[s].handle_count = count]
              keys == MapKeysOf(marked.entries[e].alt_streams, s)
          IN IF pending /\ count = 0
             THEN IF keys = {}
                  THEN [marked EXCEPT !.aborted = TRUE]
                  ELSE [marked EXCEPT
                          !.entries[e].alt_streams = MapDel(@, CHOOSE k \in keys : TRUE),
                          !.entries[e].atime = @ + 1]
             ELSE marked

\* drop(): both parts, then the handle's own references are released
DropHandle(fs, h) ==
  LET done == DropStreamPart(DropEntryPart(fs, h), h)
  IN [done EXCEPT !.handles = MapDel(@, h),
                  !.disposed = Append(@, [index |-> h] @@ fs.handles[h])]

\* a check_default that takes only the empty name as the directory default
CheckDefaultEmptyOnly(si, is_dir) ==
  IF is_dir
  THEN IF si.name = ""
       THEN IF si.type = "IndexAllocation" THEN "true" ELSE "invalid"
       ELSE IF si.type = "Data" THEN "false" ELSE "invalid"
  ELSE IF si.type = "Data"
       THEN IF si.name = "" THEN "true" ELSE "false"
       ELSE "invalid"

(***************************************************************************)
(* path.rs: StreamInfo::check_default. "true" / "false" are Ok(bool).       *)
(***************************************************************************)
CheckDefault(si, is_dir) ==
  IF is_dir
  THEN IF si.name = "" \/ si.name = "$I30"
       THEN IF si.type = "IndexAllocation" THEN "true" ELSE "invalid"
       ELSE IF si.type = "Data" THEN "false" ELSE "invalid"
  ELSE IF si.type = "Data"
       THEN IF si.name = "" THEN "true" ELSE "false"
       ELSE "invalid"

(***************************************************************************)
(* memfs_handler.rs: the helpers of create_file.                            *)
(***************************************************************************)
\* the result of a handler: the new state, the status, the handle (0: none)
Result(fs, status) == [fs |-> fs, status |-> status, handle |-> 0]

Opened(fs, index) == [fs |-> fs, status |-> "SUCCESS", handle |-> index]

Panic(fs) == [fs |-> [fs EXCEPT !.aborted = TRUE], status |-> "PANIC", handle |-> 0]

\* the value HttpFileEntry::new gives download_pending
NewDownloadPending == TRUE

\* response.content_length() is None
NoLength == -1

\* create_new_http_stream: a new AltStream and one job sent to the pool;
\* the new stream is the last of fs.streams
CreateNewHttpStream(fs, index, entry, full_download) ==
  [fs EXCEPT
     !.streams = Append(@, NewAltStream),
     !.jobs = MapPut(@, index,
                [stream |-> Len(fs.streams) + 1, entry |-> entry,
                 full |-> full_download, st |-> "queued",
                 declared |-> NoLength, total |-> 0, sent |-> 0])]

\* create_new without the update of the parent's modify time
CreateNewKeepsMtime(fs, index, req, attrs, parent, is_dir) ==
  LET name == req.path[Len(req.path)]
      dflt == IF req.stream = NoStream THEN "true" ELSE CheckDefault(req.stream, is_dir)
      new == Len(fs.entries) + 1
      sref == IF dflt = "false" THEN Len(fs.streams) + 1 ELSE 0
      stat == [NewEntry(IF is_dir THEN "Directory" ELSE "File", index, attrs, parent)
                 EXCEPT !.alt_streams =
                   IF sref = 0 THEN @ ELSE MapPut(@, req.stream.name, sref)]
      key == PlainKey(name)
      present == key \in DOMAIN fs.entries[parent].children
      inserted ==
        [fs EXCEPT
           !.streams = IF sref = 0 THEN @ ELSE Append(@, NewAltStream),
           !.entries = Append([@ EXCEPT ![parent].children = MapPut(@, key, new)], stat)]
      stamped == inserted
  IN IF "READONLY" \in attrs /\ req.doc
     THEN Result(fs, "CANNOT_DELETE")
     ELSE IF dflt = "invalid"
     THEN Result(fs, "OBJECT_NAME_INVALID")
     ELSE IF present
     THEN Panic(inserted)
     ELSE Opened(EntryHandleNew(stamped, index, new, sref, req.doc), index)

\* create_new: a new File or Directory under name.file_name
CreateNew(fs, index, req, attrs, parent, is_dir) ==
  LET name == req.path[Len(req.path)]
      dflt == IF req.stream = NoStream THEN "true" ELSE CheckDefault(req.stream, is_dir)
      new == Len(fs.entries) + 1
      sref == IF dflt = "false" THEN Len(fs.streams) + 1 ELSE 0
      stat == [NewEntry(IF is_dir THEN "Directory" ELSE "File", index, attrs, parent)
                 EXCEPT !.alt_streams =
                   IF sref = 0 THEN @ ELSE MapPut(@, req.stream.name, sref)]
      key == PlainKey(name)
      present == key \in DOMAIN fs.entries[parent].children
      inserted ==
        [fs EXCEPT
           !.streams = IF sref = 0 THEN @ ELSE Append(@, NewAltStream),
           !.entries = Append([@ EXCEPT ![parent].children = MapPut(@, key, new)], stat)]
      stamped == [inserted EXCEPT !.entries[parent] = StatUpdateMtime(@)]
  IN IF "READONLY" \in attrs /\ req.doc
     THEN Result(fs, "CANNOT_DELETE")
     ELSE IF dflt = "invalid"
     THEN Result(fs, "OBJECT_NAME_INVALID")
     ELSE IF present
     THEN Panic(inserted)
     ELSE Opened(EntryHandleNew(stamped, index, new, sref, req.doc), index)

\* create_new_http: a new HttpFile, its stream and its download job
CreateNewHttp(fs, index, req, attrs, parent, full_download) ==
  LET name == req.path[Len(req.path)]
      new == Len(fs.entries) + 1
      sref == Len(fs.streams) + 1
      withJob == CreateNewHttpStream(fs, index, new, full_download)
      stat == [NewEntry("HttpFile", index, attrs, parent)
                 EXCEPT !.download_pending = NewDownloadPending,
                        !.alt_streams = MapPut(@, FullNameKey, sref)]
      key == RawKey(name, req.stream)
      present == key \in DOMAIN fs.entries[parent].children
      inserted ==
        [withJob EXCEPT
           !.entries = Append([@ EXCEPT ![parent].children = MapPut(@, key, new)], stat)]
      stamped == [inserted EXCEPT !.entries[parent] = StatUpdateMtime(@)]
  IN IF "READONLY" \in attrs /\ req.doc
     THEN Result(fs, "CANNOT_DELETE")
     ELSE IF present
     THEN Panic(inserted)
     ELSE Opened(EntryHandleNew(stamped, index, new, sref, req.doc), index)

(***************************************************************************)
(* memfs_handler.rs: create_file.                                           *)
(***************************************************************************)
\* the test the commented-out half of line 502 would make
IsReadonlyStored(stat) == "READONLY" \in stat.attrs

\* line 502: every existing entry is treated as readonly
IsReadonly(stat) == TRUE

\* lines 520-581: a named stream of an existing entry
OpenExistingStream(fs, index, req, e) ==
  LET sname == req.stream.name
      has == sname \in DOMAIN fs.entries[e].alt_streams
      s == fs.entries[e].alt_streams[sname]
      cleared ==
        [fs EXCEPT !.entries[e] = StatUpdateMtime([@ EXCEPT !.attrs = @ \cup {"ARCHIVE"}]),
                   !.streams[s].data = <<>>]
  IN IF has
     THEN IF fs.streams[s].delete_pending
          THEN Result(fs, "DELETE_PENDING")
          ELSE IF req.disp \in {"Supersede", "Overwrite", "OverwriteIf"}
          THEN IF req.disp # "Supersede" /\ IsReadonly(fs.entries[e])
               THEN Result(fs, "ACCESS_DENIED")
               ELSE Opened(EntryHandleNew(cleared, index, e, s, req.doc), index)
          ELSE IF req.disp = "Create"
          THEN Result(fs, "OBJECT_NAME_COLLISION")
          ELSE Opened(EntryHandleNew(fs, index, e, s, req.doc), index)
     ELSE IF req.disp \in {"Open", "Overwrite"}
          THEN Result(fs, "OBJECT_NAME_NOT_FOUND")
          ELSE IF IsReadonly(fs.entries[e])
          THEN Result(fs, "ACCESS_DENIED")
          ELSE LET sref == Len(fs.streams) + 1
                   added == [fs EXCEPT
                               !.streams = Append(@, NewAltStream),
                               !.entries[e] =
                                  StatUpdateAtime([@ EXCEPT !.alt_streams =
                                                     MapPut(@, sname, sref)])]
               IN Opened(EntryHandleNew(added, index, e, sref, req.doc), index)

\* lines 583-614: the default content of an existing File
OpenExistingFile(fs, index, req, e) ==
  LET stat == fs.entries[e]
      is_hidden_system ==
        {"HIDDEN", "SYSTEM"} \subseteq stat.attrs /\ ~({"HIDDEN", "SYSTEM"} \subseteq req.attrs)
      truncated ==
        [fs EXCEPT !.entries[e] =
           StatUpdateMtime([@ EXCEPT !.data = <<>>,
                                     !.attrs = req.attrs \cup {"ARCHIVE"}])]
  IN IF req.dirOpt = "dir"
     THEN Result(fs, "NOT_A_DIRECTORY")
     ELSE IF req.disp \in {"Supersede", "Overwrite", "OverwriteIf"}
     THEN IF (req.disp # "Supersede" /\ IsReadonly(stat)) \/ is_hidden_system
          THEN Result(fs, "ACCESS_DENIED")
          ELSE Opened(EntryHandleNew(truncated, index, e, 0, req.doc), index)
     ELSE IF req.disp = "Create"
     THEN Result(fs, "OBJECT_NAME_COLLISION")
     ELSE Opened(EntryHandleNew(fs, index, e, 0, req.doc), index)

\* an open of an existing HttpFile that hands out the entry with no stream
\* bound, as the File arm does
OpenExistingHttpFileUnbound(fs, index, req, e) ==
  IF req.dirOpt = "dir"
  THEN Result(fs, "FILE_IS_A_DIRECTORY")
  ELSE IF req.disp \in {"Open", "OpenIf"}
  THEN Opened(EntryHandleNew(fs, index, e, 0, req.doc), index)
  ELSE IF req.disp = "Create"
  THEN Result(fs, "OBJECT_NAME_COLLISION")
  ELSE Result(fs, "INVALID_PARAMETER")

\* an open of an existing HttpFile that hands out the stream the entry keeps
OpenExistingHttpFileCached(fs, index, req, e) ==
  LET marked == [fs EXCEPT !.entries[e].download_pending = TRUE]
      withJob == CreateNewHttpStream(marked, index, e, req.access # "attr")
      cached == IF FullNameKey \in DOMAIN fs.entries[e].alt_streams
                THEN fs.entries[e].alt_streams[FullNameKey]
                ELSE Len(withJob.streams)
  IN IF req.dirOpt = "dir"
     THEN Result(fs, "FILE_IS_A_DIRECTORY")
     ELSE IF req.disp \in {"Open", "OpenIf"}
     THEN Opened(EntryHandleNew(withJob, index, e, cached, req.doc), index)
     ELSE IF req.disp = "Create"
     THEN Result(fs, "OBJECT_NAME_COLLISION")
     ELSE Result(fs, "INVALID_PARAMETER")

\* an open of an existing HttpFile that starts the fetch before it looks at
\* the disposition
OpenExistingHttpFileFetchesFirst(fs, index, req, e) ==
  LET marked == [fs EXCEPT !.entries[e].download_pending = TRUE]
      withJob == CreateNewHttpStream(marked, index, e, req.access # "attr")
  IN IF req.dirOpt = "dir"
     THEN Result(fs, "FILE_IS_A_DIRECTORY")
     ELSE IF req.disp \in {"Open", "OpenIf"}
     THEN Opened(EntryHandleNew(withJob, index, e, Len(withJob.streams), req.doc), index)
     ELSE IF req.disp = "Create"
     THEN Result(withJob, "OBJECT_NAME_COLLISION")
     ELSE Result(withJob, "INVALID_PARAMETER")

\* lines 615-660: an existing HttpFile
OpenExistingHttpFile(fs, index, req, e) ==
  LET marked == [fs EXCEPT !.entries[e].download_pending = TRUE]
      withJob == CreateNewHttpStream(marked, index, e, req.access # "attr")
  IN IF req.dirOpt = "dir"
     THEN Result(fs, "FILE_IS_A_DIRECTORY")
     ELSE IF req.disp \in {"Open", "OpenIf"}
     THEN Opened(EntryHandleNew(withJob, index, e, Len(withJob.streams), req.doc), index)
     ELSE IF req.disp = "Create"
     THEN Result(fs, "OBJECT_NAME_COLLISION")
     ELSE Result(fs, "INVALID_PARAMETER")

\* lines 661-680: an existing Directory
OpenExistingDirectory(fs, index, req, e) ==
  IF req.dirOpt = "nondir"
  THEN Result(fs, "FILE_IS_A_DIRECTORY")
  ELSE IF req.disp \in {"Open", "OpenIf"}
  THEN Opened(EntryHandleNew(fs, index, e, 0, req.doc), index)
  ELSE IF req.disp = "Create"
  THEN Result(fs, "OBJECT_NAME_COLLISION")
  ELSE Result(fs, "INVALID_PARAMETER")

\* lines 494-680: the leaf is in the parent's child map
OpenExisting(fs, index, req, e) ==
  LET stat == fs.entries[e]
      dflt == IF req.stream = NoStream THEN "true"
              ELSE CheckDefault(req.stream, stat.kind = "Directory")
  IN IF IsReadonly(stat) /\ req.access = "write"
     THEN Result(fs, "ACCESS_DENIED")
     ELSE IF stat.delete_pending
     THEN Result(fs, "DELETE_PENDING")
     ELSE IF IsReadonly(stat) /\ req.doc
     THEN Result(fs, "CANNOT_DELETE")
     ELSE IF dflt = "invalid"
     THEN Result(fs, "OBJECT_NAME_INVALID")
     ELSE IF dflt = "false"
     THEN OpenExistingStream(fs, index, req, e)
     ELSE IF stat.kind = "File"
     THEN OpenExistingFile(fs, index, req, e)
     ELSE IF stat.kind = "HttpFile"
     THEN OpenExistingHttpFile(fs, index, req, e)
     ELSE OpenExistingDirectory(fs, index, req, e)

\* lines 681-743: the leaf is not in the parent's child map
OpenAbsent(fs, index, req, parent) ==
  IF fs.entries[parent].delete_pending
  THEN Result(fs, "DELETE_PENDING")
  ELSE IF req.dirOpt = "dir"
  THEN IF req.disp \in {"Create", "OpenIf"}
       THEN CreateNew(fs, index, req, req.attrs, parent, TRUE)
       ELSE IF req.disp = "Open"
       THEN Result(fs, "OBJECT_NAME_NOT_FOUND")
       ELSE Result(fs, "INVALID_PARAMETER")
  ELSE IF req.disp \in {"Open", "Overwrite"}
  THEN CreateNewHttp(fs, index, req, req.attrs \cup {"ARCHIVE"}, parent,
                     req.access # "attr")
  ELSE CreateNew(fs, index, req, req.attrs \cup {"ARCHIVE"}, parent, FALSE)

\* a root branch that returns the root for every disposition
OpenRootAnyDisposition(fs, index, req) ==
  IF req.dirOpt = "nondir"
  THEN Result(fs, "FILE_IS_A_DIRECTORY")
  ELSE Opened(EntryHandleNew(fs, index, Root, 0, req.doc), index)

\* lines 744-769: the path has no component
OpenRoot(fs, index, req) ==
  IF req.disp \in {"Open", "OpenIf"}
  THEN IF req.dirOpt = "nondir"
       THEN Result(fs, "FILE_IS_A_DIRECTORY")
       ELSE Opened(EntryHandleNew(fs, index, Root, 0, req.doc), index)
  ELSE Result(fs, "INVALID_PARAMETER")

\* create_file: next_id, split_path, then the branch of the leaf
DoCreateFile(fs, req) ==
  LET index == fs.id_counter
      counted == [fs EXCEPT !.id_counter = @ + 1]
      n == Len(req.path)
      found == FindDirEntry(counted.entries, index, Root, SubSeq(req.path, 1, n - 1))
      resolved == [counted EXCEPT !.entries = found.entries]
      key == PlainKey(req.path[n])
  IN IF n = 0
     THEN OpenRoot(counted, index, req)
     ELSE IF found.status # "OK"
     THEN Result(resolved, found.status)
     ELSE IF key \in DOMAIN resolved.entries[found.dir].children
     THEN OpenExisting(resolved, index, req, resolved.entries[found.dir].children[key])
     ELSE OpenAbsent(resolved, index, req, found.dir)

(***************************************************************************)
(* memfs_handler.rs: the download task of create_new_http_stream.           *)
(***************************************************************************)
\* the i-th byte of a remote body
RemoteByte(i) == 10 + i

\* what a GET may answer: the declared content length and the length of the body
Responses == [declared : {NoLength} \cup (0..MaxBody), total : 0..MaxBody]

\* lines 305-339: the response to the GET has arrived
TaskHeaders(fs, j, rsp) ==
  LET job == fs.jobs[j]
      known == [fs EXCEPT !.streams[job.stream].content_length =
                            IF rsp.declared = NoLength THEN @ ELSE rsp.declared]
  IN IF rsp.declared # NoLength /\ ~job.full
     THEN [known EXCEPT !.jobs[j].st = "ended", !.jobs[j].declared = rsp.declared]
     ELSE IF ~job.full
     THEN [known EXCEPT !.jobs[j].st = "panicked"]
     ELSE [known EXCEPT !.jobs[j].st = "body", !.jobs[j].declared = rsp.declared,
                        !.jobs[j].total = rsp.total]

\* lines 335-338: the GET failed
TaskGetFailed(fs, j) == [fs EXCEPT !.jobs[j].st = "failed"]

\* lines 341-358: one chunk (one byte) of the body is appended
TaskChunk(fs, j) ==
  LET s == fs.jobs[j].stream
  IN [fs EXCEPT !.streams[s].data = Append(@, RemoteByte(Len(@) + 1)),
                !.jobs[j].sent = @ + 1]

\* line 343: the body stream yields an error, `item.unwrap()` panics
TaskChunkFailed(fs, j) == [fs EXCEPT !.jobs[j].st = "panicked"]

\* lines 376-395: the body has ended, the completion callback runs
TaskDone(fs, j) ==
  [fs EXCEPT !.entries[fs.jobs[j].entry].download_pending = FALSE,
             !.jobs[j].st = "ended"]

(***************************************************************************)
(* utils/timeout.rs: wait_with_timeout, and the two waits on a stream.      *)
(***************************************************************************)
\* get_file_information: the budget and the delay of its wait, in ms
GetInfoBudget == 5000

GetInfoDelay == 10

\* read_file: the budget and the delay of its wait on a stream, in ms
ReadBudget == 5000

ReadDelay == 50

\* wait_with_timeout: the test of the while loop
WaitLoops(timeout, should_continue) == timeout > 0 /\ should_continue

\* a wait_with_timeout that takes a budget of exactly 0 as not exhausted
WaitResultStrict(timeout, on_timeout) == IF timeout < 0 THEN on_timeout ELSE "SUCCESS"

\* wait_with_timeout: what is returned after the loop
WaitResult(timeout, on_timeout) == IF timeout <= 0 THEN on_timeout ELSE "SUCCESS"

\* get_file_information: the closure `len = content_length; len == 0`
InfoShouldContinue(fs, s) == fs.streams[s].content_length = 0

\* read_file: the closure `len == 0 || len < offset + buflen`
ReadShouldContinue(fs, s, offset, buflen) ==
  LET len == Len(fs.streams[s].data)
  IN len = 0 \/ len < offset + buflen

\* read_file: do_read
DoRead(data, offset, buflen) ==
  LET rest == Len(data) - offset
      len == IF buflen < rest THEN buflen ELSE rest
  IN SubSeq(data, offset + 1, offset + len)

\* read_file: the status its on_timeout closure returns for a stream
ReadOnTimeout == "LOCK_NOT_GRANTED"

\* get_file_information: the status its on_timeout closure returns
InfoOnTimeout == "IO_TIMEOUT"

WtIdle ==
  [op |-> "none", pc |-> "idle", h |-> 0, timeout |-> 0, delay |-> 0,
   offset |-> 0, buflen |-> 0, len |-> 0, known |-> FALSE,
   data |-> <<>>, doc |-> FALSE, ignored |-> FALSE,
   si |-> NoStream, is_dir |-> FALSE,
   budget |-> 0, on_timeout |-> "None", cond |-> FALSE, evals |-> 0,
   met |-> FALSE, early |-> FALSE, within |-> FALSE,
   res |-> [status |-> "none", size |-> 0, bytes |-> <<>>]]

\* the job that fills stream s
JobOf(fs, s) == CHOOSE j \in DOMAIN fs.jobs : fs.jobs[j].stream = s

(***************************************************************************)
(* SpecLocks: the RwLocks the handlers take, step by step.  The tree is     *)
(* \D (a directory, made by an earlier request and never opened for         *)
(* delete), \D\E (a directory that find_dir_entry creates), \D\F (an        *)
(* HttpFile, made by FILE_OPEN) and \D\G (a File, made by FILE_OPEN_IF).    *)
(* Each handler is a program of lock steps; the fields the handler reads    *)
(* and writes under a lock are the presence of an entry in its parent's     *)
(* child map and the handle counts.  A guard that lives for one statement   *)
(* while its thread takes no other lock is one step (Touch); log statements *)
(* that lock nothing new are left out.  A failed assert or unwrap ends the  *)
(* behaviour (aborted).                                                     *)
(***************************************************************************)
\* host calls per behaviour
MaxOps == 3
\* rounds of a wait loop before its budget is exhausted
MaxPolls == 1

HostThreads == {<<"host", 1>>, <<"host", 2>>}

Slots == 1..MaxOps

\* the download task of the job of handle slot h runs on a worker thread
Worker(h) == <<"worker", h>>

LkThreads == HostThreads \cup {Worker(h) : h \in Slots}

\* Directory.children, Entry.stat, an AltStream, HttpFile.download_pending
Ch(d) == <<"children", d>>

St(x) == <<"stat", x>>

Sm(h) == <<"stream", ToString(h)>>

Dp == <<"download_pending", "F">>

ParentOf(x) == IF x = "D" THEN "root" ELSE "D"

\* the locks that guard a handle_count
Counted == {St(x) : x \in {"D", "F", "G"}} \cup {Sm(h) : h \in Slots}

\* the steps of a program: to = 0 ends the call, fx is what the step does
\* besides (a job sent to the pool, a field the task writes, a new handle)
Acq(l, m, to) == [k |-> "acq", l |-> l, m |-> m, to |-> to, n |-> -1, fx |-> ""]

Rel(l, to) == [k |-> "rel", l |-> l, m |-> "", to |-> to, n |-> -1, fx |-> ""]

\* a guard that lives for one statement: the lock is taken and released while
\* the thread takes no other lock
Touch(l, m, to) == [k |-> "touch", l |-> l, m |-> m, to |-> to, n |-> -1, fx |-> ""]

\* handle_count += 1 / -= 1 of the Stat or AltStream behind lock l
Inc(l, to) == [k |-> "inc", l |-> l, m |-> "", to |-> to, n |-> -1, fx |-> ""]

Dec(l, to) == [k |-> "dec", l |-> l, m |-> "", to |-> to, n |-> -1, fx |-> ""]

\* children.insert(x) with (m = "assert") or without the assert on its result
Ins(x, m, to) == [k |-> "ins", l |-> x, m |-> m, to |-> to, n |-> -1, fx |-> ""]

\* children.remove(key of x), both unwrapped
Rem(x, to) == [k |-> "rem", l |-> x, m |-> "", to |-> to, n |-> -1, fx |-> ""]

\* no lock step: the loop of find_files passes a name that is not there
Skip(to) == [k |-> "skip", l |-> "", m |-> "", to |-> to, n |-> -1, fx |-> ""]

\* a step that also sets the thread's counter (polls left, child visited)
WithN(d, n) == [d EXCEPT !.n = n]

\* a step with a further effect
With(d, fx) == [d EXCEPT !.fx = fx]

\* a thread: the handler it runs, its position, the handle (slot h on entry
\* x, bound to a stream or not, delete-on-close or not) and a counter
IdleThread ==
  [op |-> "idle", pc |-> 0, h |-> 0, x |-> "", s |-> FALSE, doc |-> FALSE, n |-> 0]

LkInit ==
  [thr |-> [t \in LkThreads |-> IdleThread],
   held |-> [t \in LkThreads |-> {}],
   cnt |-> [l \in Counted |-> 0],
   present |-> {"D"},
   handles |-> EmptyMap,
   known |-> [h \in Slots |-> {}],
   next |-> 1,
   ops |-> 0,
   aborted |-> FALSE]

Holds(L, t, l) == \E m \in {"R", "W"} : <<l, m>> \in L.held[t]

(***************************************************************************)
(* The worker pool (thread_pool.rs).  ThreadPool::new makes one mpsc        *)
(* channel, keeps the sender and gives every worker thread a clone of the   *)
(* Arc<Mutex<Receiver>>.  main.rs builds the pool with 20 workers; the      *)
(* model keeps MaxWorkers of them.  A job is known by its number, its kind  *)
(* and the way its closure ends: it returns Ok, it returns Err, or it       *)
(* panics and unwinds the worker thread that ran it.                        *)
(***************************************************************************)
\* worker threads of the pool
MaxWorkers == 2
\* jobs sent to the pool per behaviour
MaxJobs == 3

Workers == 1..MaxWorkers

JobKinds == {"Sync", "Async"}

\* what the worker sees of a download task (the closure of line 302) that
\* came to its end fs.jobs[j].st: Ok(()), Err(e) of the `?` at the GET, or
\* the panic of `item.unwrap()` / `assert!(full_download)`
JobOutcome(st) ==
  CASE st = "ended" -> "ok"
    [] st = "failed" -> "err"
    [] st = "panicked" -> "panic"

\* the ends of the jobs the program submits: every job is the download
\* closure, sent with execute_async; execute has no caller, its closure is
\* taken to return
Outcomes(kind) ==
  IF kind = "Async" THEN {JobOutcome(st) : st \in {"ended", "failed", "panicked"}}
  ELSE {"ok"}

\* a worker: its place in the loop of Worker::new, the message it holds and
\* its is_working flag
\*   "lock"  before receiver.lock()          "recv"  inside recv(), mutex held
\*   "flag"  before *working = true          "match" before the match
\*   "run"   inside the job                  "clear" before *working = false
\*   "gone"  the thread returned (break)     "dead"  the thread panicked
NewWorker == [pc |-> "lock", msg |-> 0, is_working |-> FALSE]

NoJob == 0

\* recv() returned Err: the channel is closed and empty
Disconnected == MaxJobs + 1

PoolInit ==
  [workers |-> [w \in Workers |-> NewWorker],
   sender |-> TRUE,
   queue |-> <<>>,
   mutex |-> 0,
   jobs |-> <<>>,
   drop |-> [pc |-> "none", next |-> 1]]

(***************************************************************************)
(* The actions.                                                             *)
(***************************************************************************)
Install(fs) ==
  /\ id_counter' = fs.id_counter
  /\ entries' = fs.entries
  /\ streams' = fs.streams
  /\ handles' = fs.handles
  /\ jobs' = fs.jobs
  /\ aborted' = fs.aborted
  /\ disposed' = fs.disposed
  /\ UNCHANGED <<wt, lk, pool>>

\* a host thread calls create_file
CreateFile(req) ==
  /\ ~aborted
  /\ id_counter <= MaxIndex
  /\ Install(DoCreateFile(Fs, req).fs)

\* close_file changes no stamp (no handler sets a delayed stamp); the
\* context is then dropped
Close(h) ==
  /\ ~aborted
  /\ h \in DOMAIN handles
  /\ Install(DropHandle(Fs, h))

DownloadHeaders(j, rsp) ==
  /\ ~aborted
  /\ j \in DOMAIN jobs /\ jobs[j].st = "queued"
  /\ rsp.declared \in {NoLength, rsp.total}
  /\ Install(TaskHeaders(Fs, j, rsp))

DownloadGetFailed(j) ==
  /\ ~aborted
  /\ j \in DOMAIN jobs /\ jobs[j].st = "queued"
  /\ Install(TaskGetFailed(Fs, j))

\* a download step taken only while a handle is bound to the job's stream
DownloadChunkWhileOpen(j) ==
  /\ ~aborted
  /\ j \in DOMAIN jobs /\ jobs[j].st = "body"
  /\ \E h \in DOMAIN handles : handles[h].alt_stream = jobs[j].stream
  /\ Len(streams[jobs[j].stream].data) < jobs[j].total
  /\ Install(TaskChunk(Fs, j))

DownloadChunk(j) ==
  /\ ~aborted
  /\ j \in DOMAIN jobs /\ jobs[j].st = "body"
  /\ Len(streams[jobs[j].stream].data) < jobs[j].total
  /\ Install(TaskChunk(Fs, j))

DownloadChunkFailed(j) ==
  /\ ~aborted
  /\ j \in DOMAIN jobs /\ jobs[j].st = "body"
  /\ Len(streams[jobs[j].stream].data) < jobs[j].total
  /\ Install(TaskChunkFailed(Fs, j))

DownloadDone(j) ==
  /\ ~aborted
  /\ j \in DOMAIN jobs /\ jobs[j].st = "body"
  /\ Len(streams[jobs[j].stream].data) = jobs[j].total
  /\ Install(TaskDone(Fs, j))

Next ==
  \/ \E req \in HostRequests : CreateFile(req)
  \/ \E h \in 1..MaxIndex : Close(h)

Init ==
  /\ id_counter = InitFs.id_counter
  /\ entries = InitFs.entries
  /\ streams = InitFs.streams
  /\ handles = InitFs.handles
  /\ jobs = InitFs.jobs
  /\ aborted = InitFs.aborted
  /\ disposed = InitFs.disposed
  /\ wt = WtIdle
  /\ lk = LkInit
  /\ pool = PoolInit

Spec == Init /\ [][Next]_vars

(***************************************************************************)
(* SpecDl: opens of one path without a stream suffix, closes, and the       *)
(* download tasks of the jobs those opens submit.                           *)
(***************************************************************************)
DlRequests ==
  {r \in HostRequests :
     /\ r.path = <<"a">> /\ r.stream = NoStream /\ r.dirOpt = "none" /\ ~r.doc
     /\ r.disp \in {"Open", "OpenIf", "Create"}}

NextDl ==
  \/ \E req \in DlRequests : CreateFile(req)
  \/ \E h \in 1..MaxIndex : Close(h)
  \/ \E j \in 1..MaxIndex : \E rsp \in Responses : DownloadHeaders(j, rsp)
  \/ \E j \in 1..MaxIndex : DownloadGetFailed(j)
  \/ \E j \in 1..MaxIndex : DownloadChunk(j)
  \/ \E j \in 1..MaxIndex : DownloadChunkFailed(j)
  \/ \E j \in 1..MaxIndex : DownloadDone(j)

SpecDl == Init /\ [][NextDl]_vars

(***************************************************************************)
(* SpecWait: one fetch-through entry with its handle and its download, and  *)
(* a host thread that calls get_file_information and read_file on it.       *)
(***************************************************************************)
\* the handle of the model: the one that the first create_file returns
WaitHandle == 1

FirstOpen(access) ==
  [path |-> <<"a">>, stream |-> NoStream, disp |-> "Open", dirOpt |-> "none",
   doc |-> FALSE, access |-> access, attrs |-> {}]

InitWait ==
  \E access \in {"attr", "read"} :
    LET fs == DoCreateFile(InitFs, FirstOpen(access)).fs
    IN /\ id_counter = fs.id_counter
       /\ entries = fs.entries
       /\ streams = fs.streams
       /\ handles = fs.handles
       /\ jobs = fs.jobs
       /\ aborted = fs.aborted
       /\ disposed = fs.disposed
       /\ wt = WtIdle
       /\ lk = LkInit
       /\ pool = PoolInit

\* get_file_information on a stream-bound handle enters its wait
GetInfoBegin(h) ==
  /\ wt.pc \in {"idle", "done"}
  /\ h \in DOMAIN handles /\ handles[h].alt_stream # 0
  /\ wt' = [WtIdle EXCEPT !.op = "info", !.pc = "wait", !.h = h,
                          !.timeout = GetInfoBudget, !.delay = GetInfoDelay,
                          !.known = jobs[JobOf(Fs, handles[h].alt_stream)].declared # NoLength]
  /\ UNCHANGED <<id_counter, entries, streams, handles, jobs, aborted, disposed, lk, pool>>

\* read_file on a stream-bound handle enters its wait
ReadBegin(h, offset, buflen) ==
  /\ wt.pc \in {"idle", "done"}
  /\ h \in DOMAIN handles /\ handles[h].alt_stream # 0
  /\ wt' = [WtIdle EXCEPT !.op = "read", !.pc = "wait", !.h = h,
                          !.timeout = ReadBudget, !.delay = ReadDelay,
                          !.offset = offset, !.buflen = buflen]
  /\ UNCHANGED <<id_counter, entries, streams, handles, jobs, aborted, disposed, lk, pool>>

WaitShouldContinue ==
  LET s == handles[wt.h].alt_stream
  IN IF wt.op = "info" THEN InfoShouldContinue(Fs, s)
     ELSE ReadShouldContinue(Fs, s, wt.offset, wt.buflen)

\* the length the closure of get_file_information has stored so far
WaitLen ==
  IF wt.op = "info" /\ wt.timeout > 0
  THEN streams[handles[wt.h].alt_stream].content_length
  ELSE wt.len

\* one round of the loop: the test holds, the thread sleeps `delay`
WaitPoll ==
  /\ wt.pc = "wait"
  /\ WaitLoops(wt.timeout, WaitShouldContinue)
  /\ wt' = [wt EXCEPT !.timeout = @ - wt.delay, !.len = WaitLen]
  /\ UNCHANGED <<id_counter, entries, streams, handles, jobs, aborted, disposed, lk, pool>>

\* the loop ends and the handler returns
WaitReturn ==
  /\ wt.pc = "wait"
  /\ ~WaitLoops(wt.timeout, WaitShouldContinue)
  /\ LET s == handles[wt.h].alt_stream
         status == WaitResult(wt.timeout,
                              IF wt.op = "info" THEN InfoOnTimeout ELSE ReadOnTimeout)
     IN wt' = [wt EXCEPT
                 !.pc = "done",
                 !.len = WaitLen,
                 !.res = [status |-> status,
                          size |-> IF status = "SUCCESS" /\ wt.op = "info"
                                   THEN WaitLen ELSE 0,
                          bytes |-> IF status = "SUCCESS" /\ wt.op = "read"
                                    THEN DoRead(streams[s].data, wt.offset, wt.buflen)
                                    ELSE <<>>]]
  /\ UNCHANGED <<id_counter, entries, streams, handles, jobs, aborted, disposed, lk, pool>>

NextWait ==
  \/ GetInfoBegin(WaitHandle)
  \/ \E offset \in 0..MaxBody : \E buflen \in 1..MaxBody : ReadBegin(WaitHandle, offset, buflen)
  \/ WaitPoll
  \/ WaitReturn
  \/ \E rsp \in Responses : DownloadHeaders(WaitHandle, rsp)
  \/ DownloadGetFailed(WaitHandle)
  \/ DownloadChunk(WaitHandle)
  \/ DownloadDone(WaitHandle)

SpecWait == InitWait /\ [][NextWait]_vars

(***************************************************************************)
(* SpecCancel: SpecWait, and the host also closes the handle when no call   *)
(* is using it; the download task of the handle goes on.                    *)
(***************************************************************************)
CloseIdle(h) ==
  /\ wt.pc \in {"idle", "done"}
  /\ Close(h)

NextCancel ==
  \/ GetInfoBegin(WaitHandle)
  \/ \E offset \in 0..MaxBody : \E buflen \in 1..MaxBody : ReadBegin(WaitHandle, offset, buflen)
  \/ WaitPoll
  \/ WaitReturn
  \/ CloseIdle(WaitHandle)
  \/ \E rsp \in Responses : DownloadHeaders(WaitHandle, rsp)
  \/ DownloadGetFailed(WaitHandle)
  \/ DownloadChunk(WaitHandle)
  \/ DownloadChunkFailed(WaitHandle)
  \/ DownloadDone(WaitHandle)

SpecCancel == InitWait /\ [][NextCancel]_vars

\* an EntryHandle::new that does not count the handle on its stream
OpenStepStreamUncounted(L, t) ==
  LET th == L.thr[t]
      x == th.x
  IN CASE th.pc = 1 -> Touch(Ch("root"), "R", 5)
       [] th.pc = 5 -> Acq(Ch("D"), "R", 6)
       [] th.pc = 6 -> IF x \in L.present
                       THEN Touch(St(x), "R", IF th.doc THEN 30 ELSE IF th.s THEN 8 ELSE 11)
                       ELSE Touch(St("D"), "R", 21)
       [] th.pc = 8 -> With(Touch(Dp, "W", 11), "job")
       [] th.pc = 11 -> Acq(St(x), "W", 12)
       [] th.pc = 12 -> Inc(St(x), 13)
       [] th.pc = 13 -> IF th.s THEN Rel(St(x), 16)
                        ELSE IF Holds(L, t, Ch("D")) THEN Rel(St(x), 17)
                        ELSE With(Rel(St(x), 0), "handle")
       [] th.pc = 14 -> Acq(Sm(th.h), "W", 15)
       [] th.pc = 15 -> Inc(Sm(th.h), 16)
       [] th.pc = 16 -> IF Holds(L, t, Ch("D")) THEN Skip(17)
                        ELSE With(Skip(0), "handle")
       [] th.pc = 17 -> With(Rel(Ch("D"), 0), "handle")
       [] th.pc = 21 -> Rel(Ch("D"), 22)
       [] th.pc = 22 -> IF th.s THEN With(Touch(St("D"), "R", 25), "job")
                        ELSE Touch(St("D"), "R", 25)
       [] th.pc = 25 -> Acq(Ch("D"), "W", 26)
       [] th.pc = 26 -> Ins(x, "assert", 27)
       [] th.pc = 27 -> Rel(Ch("D"), 28)
       [] th.pc = 28 -> Touch(St("D"), "W", 11)
       [] OTHER -> Rel(Ch("D"), 0)

\* create_file on \D\F (FILE_OPEN) or \D\G (FILE_OPEN_IF): split_path (1),
\* the branch of an existing leaf (5-8, 30), the branch of an absent leaf
\* (20-28) with create_new / create_new_http, EntryHandle::new (11-17)
OpenStep(L, t) ==
  LET th == L.thr[t]
      x == th.x
  IN CASE th.pc = 1 -> Touch(Ch("root"), "R", 5)
       [] th.pc = 5 -> Acq(Ch("D"), "R", 6)
       [] th.pc = 6 -> IF x \in L.present
                       THEN Touch(St(x), "R", IF th.doc THEN 30 ELSE IF th.s THEN 8 ELSE 11)
                       ELSE Touch(St("D"), "R", 21)
       [] th.pc = 8 -> With(Touch(Dp, "W", 11), "job")
       [] th.pc = 11 -> Acq(St(x), "W", 12)
       [] th.pc = 12 -> Inc(St(x), 13)
       [] th.pc = 13 -> IF th.s THEN Rel(St(x), 14)
                        ELSE IF Holds(L, t, Ch("D")) THEN Rel(St(x), 17)
                        ELSE With(Rel(St(x), 0), "handle")
       [] th.pc = 14 -> Acq(Sm(th.h), "W", 15)
       [] th.pc = 15 -> Inc(Sm(th.h), 16)
       [] th.pc = 16 -> IF Holds(L, t, Ch("D")) THEN Rel(Sm(th.h), 17)
                        ELSE With(Rel(Sm(th.h), 0), "handle")
       [] th.pc = 17 -> With(Rel(Ch("D"), 0), "handle")
       [] th.pc = 21 -> Rel(Ch("D"), 22)
       [] th.pc = 22 -> IF th.s THEN With(Touch(St("D"), "R", 25), "job")
                        ELSE Touch(St("D"), "R", 25)
       [] th.pc = 25 -> Acq(Ch("D"), "W", 26)
       [] th.pc = 26 -> Ins(x, "assert", 27)
       [] th.pc = 27 -> Rel(Ch("D"), 28)
       [] th.pc = 28 -> Touch(St("D"), "W", 11)
       [] OTHER -> Rel(Ch("D"), 0)

\* create_file on \D with FILE_OPEN and FILE_DIRECTORY_FILE
OpenDirStep(L, t) ==
  LET th == L.thr[t]
  IN CASE th.pc = 1 -> Acq(Ch("root"), "R", 2)
       [] th.pc = 2 -> Touch(St("D"), "R", 4)
       [] th.pc = 4 -> Acq(St("D"), "W", 5)
       [] th.pc = 5 -> Inc(St("D"), 6)
       [] th.pc = 6 -> Rel(St("D"), 7)
       [] OTHER -> With(Rel(Ch("root"), 0), "handle")

\* create_file on \D\E\x with FILE_OPEN and FILE_DIRECTORY_FILE: find_dir_entry
\* walks \D and \D\E (1-7), then the leaf is absent (8-10)
VivifyStep(L, t) ==
  LET th == L.thr[t]
  IN CASE th.pc = 1 -> Acq(Ch("root"), "R", 2)
       [] th.pc = 2 -> Acq(Ch("D"), "R", 3)
       [] th.pc = 3 -> Rel(Ch("D"), IF "E" \in L.present THEN 7 ELSE 4)
       [] th.pc = 4 -> Acq(Ch("D"), "W", 5)
       [] th.pc = 5 -> Ins("E", "", 6)
       [] th.pc = 6 -> Rel(Ch("D"), 7)
       [] th.pc = 7 -> Rel(Ch("root"), 8)
       [] th.pc = 8 -> Acq(Ch("E"), "R", 9)
       [] th.pc = 9 -> Touch(St("E"), "R", 10)
       [] OTHER -> Rel(Ch("E"), 0)

\* a drop() that keeps the guard of its first read of the Stat until it has
\* the parent's child map
DropStepKeepsStat(L, t) ==
  LET th == L.thr[t]
      x == th.x
      p == ParentOf(x)
  IN CASE th.pc = 1 -> Touch(St(x), "W", 3)
       [] th.pc = 3 -> Acq(St(x), "R", 5)
       [] th.pc = 5 -> Acq(Ch(p), "W", 4)
       [] th.pc = 4 -> Rel(St(x), 6)
       [] th.pc = 6 -> Acq(St(x), "W", 7)
       [] th.pc = 7 -> Dec(St(x), 15)
       [] th.pc = 15 -> Rel(St(x), 16)
       [] OTHER -> Rel(Ch(p), 0)

\* close_file (1), then drop(): the parent reference (3-4), the parent's
\* child map and the Stat (5-7), the removal (8-11), the stream (12-14)
DropStep(L, t) ==
  LET th == L.thr[t]
      x == th.x
      p == ParentOf(x)
  IN CASE th.pc = 1 -> Touch(St(x), "W", 3)
       [] th.pc = 3 -> Acq(St(x), "R", 4)
       [] th.pc = 4 -> Rel(St(x), 5)
       [] th.pc = 5 -> Acq(Ch(p), "W", 6)
       [] th.pc = 6 -> Acq(St(x), "W", 7)
       [] th.pc = 7 -> Dec(St(x), IF th.doc /\ ~th.s /\ L.cnt[St(x)] = 1 THEN 8 ELSE 12)
       [] th.pc = 8 -> Touch(St(p), "W", 10)
       [] th.pc = 10 -> Rem(x, 11)
       [] th.pc = 11 -> Rel(Ch(p), 12)
       [] th.pc = 12 -> IF th.s THEN Acq(Sm(th.h), "W", 13)
                        ELSE Rel(St(x), IF Holds(L, t, Ch(p)) THEN 16 ELSE 0)
       [] th.pc = 13 -> Dec(Sm(th.h), 14)
       [] th.pc = 14 -> Rel(Sm(th.h), 15)
       [] th.pc = 15 -> Rel(St(x), IF Holds(L, t, Ch(p)) THEN 16 ELSE 0)
       [] OTHER -> Rel(Ch(p), 0)

\* get_file_information: the Stat guard is held across the wait on the stream
InfoStep(L, t) ==
  LET th == L.thr[t]
  IN CASE th.pc = 1 -> Acq(St(th.x), "R", IF th.s THEN 2 ELSE 4)
       [] th.pc = 2 -> IF "hdr" \in L.known[th.h] \/ th.n = 0
                       THEN Touch(Sm(th.h), "R", 4)
                       ELSE WithN(Touch(Sm(th.h), "R", 2), th.n - 1)
       [] OTHER -> Rel(St(th.x), 0)

\* read_file on a stream: the Stat guard behind `alt_streams` lives to the
\* end of the call; full_len (2), the wait (4), do_read (6)
ReadStep(L, t) ==
  LET th == L.thr[t]
  IN CASE th.pc = 1 -> Acq(St(th.x), "R", 2)
       [] th.pc = 2 -> Touch(Sm(th.h), "R", 4)
       [] th.pc = 4 -> IF "body" \in L.known[th.h] THEN Touch(Sm(th.h), "R", 6)
                       ELSE IF th.n = 0 THEN Touch(Sm(th.h), "R", 8)
                       ELSE WithN(Touch(Sm(th.h), "R", 4), th.n - 1)
       [] th.pc = 6 -> Touch(Sm(th.h), "R", 8)
       [] OTHER -> Rel(St(th.x), 0)

\* the names find_files may meet in \D, in the order of its iteration
Child(n) == IF n = 1 THEN "E" ELSE IF n = 2 THEN "F" ELSE "G"

\* find_files on a handle of \D: the Stat of each child under the child map
ListStep(L, t) ==
  LET th == L.thr[t]
  IN CASE th.pc = 1 -> Acq(Ch("D"), "R", 2)
       [] th.pc = 2 /\ th.n <= 3 ->
            IF Child(th.n) \in L.present
            THEN WithN(Touch(St(Child(th.n)), "R", 2), th.n + 1)
            ELSE WithN(Skip(2), th.n + 1)
       [] OTHER -> Rel(Ch("D"), 0)

\* a download task that takes the stream lock once and keeps it while it
\* waits for the chunks
TaskStepKeepsLock(L, t) ==
  LET th == L.thr[t]
  IN CASE th.pc = 1 -> Acq(Sm(th.h), "W", 11)
       [] th.pc = 11 -> With(Skip(2), "hdr")
       [] th.pc = 2 -> With(Skip(21), "recv")
       [] th.pc = 21 -> WithN(With(Skip(IF th.n + 1 < MaxBody THEN 2 ELSE 22), "body"), th.n + 1)
       [] th.pc = 22 -> Rel(Sm(th.h), 3)
       [] OTHER -> Touch(Dp, "W", 0)

\* the download task.  It waits for the response at 1 and for the next chunk
\* at 2; the response has come and it takes the stream lock (1), writes
\* content_length and lets the lock go (11); a chunk has come and it takes
\* the lock (2), appends the chunk and lets the lock go (21); the callback (3)
TaskStep(L, t) ==
  LET th == L.thr[t]
  IN CASE th.pc = 1 -> Acq(Sm(th.h), "W", 11)
       [] th.pc = 11 -> With(Rel(Sm(th.h), 2), "hdr")
       [] th.pc = 2 -> With(Acq(Sm(th.h), "W", 21), "recv")
       [] th.pc = 21 -> WithN(With(Rel(Sm(th.h), IF th.n + 1 < MaxBody THEN 2 ELSE 3), "body"),
                              th.n + 1)
       [] OTHER -> Touch(Dp, "W", 0)

StepOf(L, t) ==
  LET op == L.thr[t].op
  IN CASE op = "open" -> OpenStep(L, t)
       [] op = "opendir" -> OpenDirStep(L, t)
       [] op = "vivify" -> VivifyStep(L, t)
       [] op = "drop" -> DropStep(L, t)
       [] op = "info" -> InfoStep(L, t)
       [] op = "read" -> ReadStep(L, t)
       [] op = "list" -> ListStep(L, t)
       [] OTHER -> TaskStep(L, t)

Busy(L) == {t \in LkThreads : L.thr[t].op # "idle"}

\* RwLock: a writer excludes everyone, readers exclude writers
CanAcquire(L, t, l, m) ==
  /\ ~Holds(L, t, l)
  /\ \A u \in LkThreads \ {t} :
       IF m = "W" THEN ~Holds(L, u, l) ELSE <<l, "W">> \notin L.held[u]

\* thread u waits for the write lock l
WaitsToWrite(L, u, l) ==
  /\ L.thr[u].op # "idle"
  /\ StepOf(L, u).k \in {"acq", "touch"} /\ StepOf(L, u).l = l /\ StepOf(L, u).m = "W"

\* the same under a lock that lets no reader pass a waiting writer
CanAcquireFair(L, t, l, m) ==
  /\ CanAcquire(L, t, l, m)
  /\ m = "R" => \A u \in LkThreads \ {t} : ~WaitsToWrite(L, u, l)

Release(held, l) == {p \in held : p[1] # l}

\* the further effect of a step
Effect(L, th, d) ==
  CASE d.fx = "job" ->
            [L EXCEPT !.thr[Worker(th.h)] =
               [IdleThread EXCEPT !.op = "task", !.pc = 1, !.h = th.h]]
    [] d.fx \in {"hdr", "recv"} -> [L EXCEPT !.known[th.h] = @ \cup {d.fx}]
    [] d.fx = "body" -> [L EXCEPT !.known[th.h] = (@ \ {"recv"}) \cup {"body"}]
    [] d.fx = "handle" ->
            [L EXCEPT !.handles = MapPut(@, th.h, [entry |-> th.x, stream |-> th.s,
                                                   doc |-> th.doc])]
    [] OTHER -> L

Apply(L, t, d) ==
  LET moved == [L EXCEPT !.thr[t] = IF d.to = 0 THEN IdleThread
                                    ELSE [@ EXCEPT !.pc = d.to,
                                                   !.n = IF d.n = -1 THEN @ ELSE d.n]]
      stepped ==
        CASE d.k = "acq" -> [moved EXCEPT !.held[t] = @ \cup {<<d.l, d.m>>}]
          [] d.k = "rel" -> [moved EXCEPT !.held[t] = Release(@, d.l)]
          [] d.k = "inc" -> [moved EXCEPT !.cnt[d.l] = @ + 1]
          [] d.k = "dec" -> [moved EXCEPT !.cnt[d.l] = DecU32(@)]
          [] d.k = "ins" -> IF d.m = "assert" /\ d.l \in L.present
                            THEN [L EXCEPT !.aborted = TRUE]
                            ELSE [moved EXCEPT !.present = @ \cup {d.l}]
          [] d.k = "rem" -> IF d.l \notin L.present
                            THEN [L EXCEPT !.aborted = TRUE]
                            ELSE [moved EXCEPT !.present = @ \ {d.l}]
          [] OTHER -> moved
  IN IF stepped.aborted THEN stepped ELSE Effect(stepped, L.thr[t], d)

\* the lock-step view leaves the handler-level state alone
UnchangedFs ==
  UNCHANGED <<id_counter, entries, streams, handles, jobs, aborted, disposed, wt, pool>>

\* a host thread that is free takes the next call
\* the host's threads are interchangeable: a call goes to the first idle one
Starts(t) ==
  /\ ~lk.aborted /\ t \in HostThreads /\ lk.thr[t].op = "idle" /\ lk.ops < MaxOps
  /\ \A u \in HostThreads : u[2] < t[2] => lk.thr[u].op # "idle"

Begin(t, th) ==
  /\ lk' = [lk EXCEPT !.thr[t] = th, !.ops = @ + 1]
  /\ UnchangedFs

\* create_file takes its index from next_id
StartOpen(t, x, doc) ==
  /\ Starts(t)
  /\ lk' = [lk EXCEPT !.thr[t] = [IdleThread EXCEPT !.op = "open", !.pc = 1, !.h = lk.next,
                                                  !.x = x, !.s = (x = "F"), !.doc = doc],
                     !.ops = @ + 1, !.next = @ + 1]
  /\ UnchangedFs

StartOpenDir(t) ==
  /\ Starts(t)
  /\ lk' = [lk EXCEPT !.thr[t] = [IdleThread EXCEPT !.op = "opendir", !.pc = 1,
                                                  !.h = lk.next, !.x = "D"],
                     !.ops = @ + 1, !.next = @ + 1]
  /\ UnchangedFs

StartVivify(t) ==
  /\ Starts(t)
  /\ lk' = [lk EXCEPT !.thr[t] = [IdleThread EXCEPT !.op = "vivify", !.pc = 1, !.h = lk.next],
                     !.ops = @ + 1, !.next = @ + 1]
  /\ UnchangedFs

OnHandle(op, h, n) ==
  [IdleThread EXCEPT !.op = op, !.pc = 1, !.h = h, !.x = lk.handles[h].entry,
                     !.s = lk.handles[h].stream, !.doc = lk.handles[h].doc, !.n = n]

\* the host closes a handle that no call is using: close_file, then drop()
StartDrop(t, h) ==
  /\ Starts(t)
  /\ h \in DOMAIN lk.handles
  /\ \A u \in HostThreads : lk.thr[u].h # h
  /\ lk' = [lk EXCEPT !.thr[t] = OnHandle("drop", h, 0), !.ops = @ + 1,
                     !.handles = MapDel(@, h)]
  /\ UnchangedFs

StartInfo(t, h) ==
  /\ Starts(t)
  /\ h \in DOMAIN lk.handles
  /\ Begin(t, OnHandle("info", h, MaxPolls))

StartRead(t, h) ==
  /\ Starts(t)
  /\ h \in DOMAIN lk.handles /\ lk.handles[h].stream
  /\ Begin(t, OnHandle("read", h, MaxPolls))

StartList(t, h) ==
  /\ Starts(t)
  /\ h \in DOMAIN lk.handles /\ lk.handles[h].entry = "D"
  /\ Begin(t, OnHandle("list", h, 1))

\* a thread takes the next step of its program, if the lock lets it
LkStep(t) ==
  /\ ~lk.aborted
  /\ lk.thr[t].op # "idle"
  /\ StepOf(lk, t).k \in {"acq", "touch"}
       => CanAcquire(lk, t, StepOf(lk, t).l, StepOf(lk, t).m)
  /\ lk' = Apply(lk, t, StepOf(lk, t))
  /\ UnchangedFs

NextLocks ==
  \/ \E t \in HostThreads : \E x \in {"F", "G"} : \E doc \in BOOLEAN : StartOpen(t, x, doc)
  \/ \E t \in HostThreads : StartOpenDir(t)
  \/ \E t \in HostThreads : StartVivify(t)
  \/ \E t \in HostThreads : \E h \in Slots : StartDrop(t, h)
  \/ \E t \in HostThreads : \E h \in Slots : StartInfo(t, h)
  \/ \E t \in HostThreads : \E h \in Slots : StartRead(t, h)
  \/ \E t \in HostThreads : \E h \in Slots : StartList(t, h)
  \/ \E t \in LkThreads : LkStep(t)

SpecLocks == Init /\ [][NextLocks]_vars

(***************************************************************************)
(* SpecOpen: create_file with every request of Requests (write access,      *)
(* FILE_NON_DIRECTORY_FILE and the READONLY attribute included) and         *)
(* close_file.                                                              *)
(***************************************************************************)
NextOpen ==
  \/ \E req \in Requests : CreateFile(req)
  \/ \E h \in 1..MaxIndex : Close(h)

SpecOpen == Init /\ [][NextOpen]_vars

(***************************************************************************)
(* SpecFile: the host calls on the default content of an entry, each with   *)
(* the status it returns: create_file without a stream suffix (hidden and   *)
(* system attributes included), close_file, read_file through a handle      *)
(* that has no stream bound, write_file, set_end_of_file and                *)
(* delete_directory.  The call and its result are kept in wt.               *)
(***************************************************************************)
\* file_attributes with the HIDDEN and SYSTEM flags
AttrSetsHS == AttrSets \cup {{"HIDDEN"}, {"HIDDEN", "SYSTEM"}}

DefaultRequests ==
  [path : Paths, stream : {NoStream}, disp : Dispositions, dirOpt : DirOptions,
   doc : BOOLEAN, access : Accesses, attrs : AttrSetsHS]

\* the state a handler leaves and the call it was
InstallWith(fs, call) ==
  /\ id_counter' = fs.id_counter
  /\ entries' = fs.entries
  /\ streams' = fs.streams
  /\ handles' = fs.handles
  /\ jobs' = fs.jobs
  /\ aborted' = fs.aborted
  /\ disposed' = fs.disposed
  /\ wt' = call
  /\ UNCHANGED <<lk, pool>>

Returned(op, h, status) ==
  [WtIdle EXCEPT !.op = op, !.pc = "done", !.h = h, !.res.status = status]

CreateFileCall(req) ==
  /\ ~aborted
  /\ id_counter <= MaxIndex
  /\ LET r == DoCreateFile(Fs, req)
     IN InstallWith(r.fs, Returned("create", r.handle, r.status))

CloseCall(h) ==
  /\ ~aborted
  /\ h \in DOMAIN handles
  /\ InstallWith(DropHandle(Fs, h), Returned("close", h, "SUCCESS"))

\* read_file, lines 871-893, when context.alt_stream is None: a File fails
\* the assert of line 872, an HttpFile waits for download_pending (IO_TIMEOUT
\* when the budget runs out) and fails the assert of line 885, a Directory
\* is an invalid request
ReadNoStream(fs, h) ==
  LET stat == fs.entries[fs.handles[h].entry]
  IN IF stat.kind = "File" THEN {"PANIC"}
     ELSE IF stat.kind = "HttpFile"
     THEN IF stat.download_pending THEN {"IO_TIMEOUT", "PANIC"} ELSE {"PANIC"}
     ELSE {"INVALID_DEVICE_REQUEST"}

ReadFile(h, offset, buflen) ==
  /\ ~aborted
  /\ h \in DOMAIN handles /\ handles[h].alt_stream = 0
  /\ \E status \in ReadNoStream(Fs, h) :
       InstallWith([Fs EXCEPT !.aborted = (status = "PANIC")],
                   [Returned("read", h, status) EXCEPT !.offset = offset,
                                                       !.buflen = buflen])

\* write_file, lines 897-906: Err(STATUS_ACCESS_DENIED)
WriteFile(h, offset, data) ==
  /\ ~aborted
  /\ h \in DOMAIN handles
  /\ InstallWith(Fs, [Returned("write", h, "ACCESS_DENIED") EXCEPT !.offset = offset,
                                                                   !.data = data])

\* set_end_of_file, lines 1062-1070: Err(STATUS_ACCESS_DENIED)
SetEndOfFile(h, offset) ==
  /\ ~aborted
  /\ h \in DOMAIN handles
  /\ InstallWith(Fs, [Returned("set_end_of_file", h, "ACCESS_DENIED")
                        EXCEPT !.offset = offset])

\* delete_directory, lines 1040-1047: Err(STATUS_ACCESS_DENIED); doc is
\* info.delete_on_close()
DeleteDirectory(h, doc) ==
  /\ ~aborted
  /\ h \in DOMAIN handles
  /\ InstallWith(Fs, [Returned("delete_directory", h, "ACCESS_DENIED") EXCEPT !.doc = doc])

\* the bytes a host writes
Written == UNION {[1..n -> {"x"}] : n \in 1..MaxBody}

NextFile ==
  \/ \E req \in DefaultRequests : CreateFileCall(req)
  \/ \E h \in 1..MaxIndex : CloseCall(h)
  \/ \E h \in 1..MaxIndex : \E offset \in 0..MaxBody : \E buflen \in 1..MaxBody :
       ReadFile(h, offset, buflen)
  \/ \E h \in 1..MaxIndex : \E data \in Written : WriteFile(h, 0, data)
  \/ \E h \in 1..MaxIndex : \E offset \in 0..MaxBody : SetEndOfFile(h, offset)
  \/ \E h \in 1..MaxIndex : \E doc \in BOOLEAN : DeleteDirectory(h, doc)

SpecFile == Init /\ [][NextFile]_vars

(***************************************************************************)
(* SpecReopen: create_file on one leaf name with every disposition and      *)
(* option, close_file, and the download tasks of the HttpFile opens, so     *)
(* that an HttpFile is reopened before, while and after its fetch.          *)
(***************************************************************************)
ReopenRequests ==
  {r \in DefaultRequests : Len(r.path) = 1 /\ r.access # "write" /\ r.attrs = {}}

NextReopen ==
  \/ \E req \in ReopenRequests : CreateFileCall(req)
  \/ \E h \in 1..MaxIndex : CloseCall(h)
  \/ \E j \in 1..MaxIndex : \E rsp \in Responses : DownloadHeaders(j, rsp)
  \/ \E j \in 1..MaxIndex : DownloadGetFailed(j)
  \/ \E j \in 1..MaxIndex : DownloadChunk(j)
  \/ \E j \in 1..MaxIndex : DownloadChunkFailed(j)
  \/ \E j \in 1..MaxIndex : DownloadDone(j)

SpecReopen == Init /\ [][NextReopen]_vars

(***************************************************************************)
(* SpecTimeout: wait_with_timeout on its own, with any budget, any positive *)
(* delay, with and without an on_timeout closure, and an awaited condition  *)
(* that becomes satisfied at any moment and then stays satisfied.           *)
(* should_continue() is the negation of the condition.  The record wt keeps *)
(* the budget at entry, the number of evaluations of the closure, whether   *)
(* an evaluation found the condition satisfied (met), whether the condition *)
(* became satisfied before the budget was used up (within), and whether it  *)
(* did so before the last sleep began (early).                              *)
(***************************************************************************)
\* the largest budget and the largest delay of the model
MaxTimeout == 4

MaxDelay == 2

\* the statuses an on_timeout closure of the handlers returns, or no closure
OnTimeouts == {"None", ReadOnTimeout, InfoOnTimeout}

\* lines 17-22: on_timeout() if there is one, else Err(STATUS_IO_TIMEOUT)
OnTimeoutResult(on_timeout) == IF on_timeout = "None" THEN "IO_TIMEOUT" ELSE on_timeout

InitTimeout ==
  /\ id_counter = InitFs.id_counter
  /\ entries = InitFs.entries
  /\ streams = InitFs.streams
  /\ handles = InitFs.handles
  /\ jobs = InitFs.jobs
  /\ aborted = InitFs.aborted
  /\ disposed = InitFs.disposed
  /\ lk = LkInit
  /\ pool = PoolInit
  /\ \E timeout \in -1..MaxTimeout : \E delay \in 1..MaxDelay :
     \E on_timeout \in OnTimeouts : \E cond \in BOOLEAN :
       wt = [WtIdle EXCEPT !.op = "wait_with_timeout", !.pc = "test",
                           !.timeout = timeout, !.delay = delay, !.budget = timeout,
                           !.on_timeout = on_timeout, !.cond = cond,
                           !.within = cond /\ timeout > 0,
                           !.early = cond /\ timeout > 0]

UnchangedByTimeout ==
  UNCHANGED <<id_counter, entries, streams, handles, jobs, aborted, disposed, lk, pool>>

\* line 13: `timeout > 0 && should_continue()`; the closure is called only
\* when timeout > 0
TimeoutTest ==
  /\ wt.op = "wait_with_timeout" /\ wt.pc = "test"
  /\ wt' = [wt EXCEPT !.pc = IF WaitLoops(wt.timeout, ~wt.cond) THEN "sleep" ELSE "exit",
                      !.evals = IF wt.timeout > 0 THEN @ + 1 ELSE @,
                      !.met = @ \/ (wt.timeout > 0 /\ wt.cond)]
  /\ UnchangedByTimeout

\* lines 14-15: sleep(delay_ms); timeout -= delay_ms
TimeoutSleep ==
  /\ wt.op = "wait_with_timeout" /\ wt.pc = "sleep"
  /\ wt' = [wt EXCEPT !.pc = "test", !.timeout = @ - wt.delay]
  /\ UnchangedByTimeout

\* the awaited condition becomes satisfied, between two evaluations or during
\* a sleep; the budget is not used up while timeout > 0 at the last test, and
\* another evaluation follows a sleep when timeout > delay
TimeoutSatisfied ==
  /\ wt.op = "wait_with_timeout" /\ wt.pc \in {"test", "sleep"}
  /\ ~wt.cond
  /\ wt' = [wt EXCEPT !.cond = TRUE,
                      !.within = wt.timeout > 0,
                      !.early = IF wt.pc = "test" THEN wt.timeout > 0
                                ELSE wt.timeout > wt.delay]
  /\ UnchangedByTimeout

\* lines 17-24: the return
TimeoutReturn ==
  /\ wt.op = "wait_with_timeout" /\ wt.pc = "exit"
  /\ wt' = [wt EXCEPT !.pc = "done",
                      !.res.status = WaitResult(wt.timeout, OnTimeoutResult(wt.on_timeout))]
  /\ UnchangedByTimeout

NextTimeout ==
  \/ TimeoutTest
  \/ TimeoutSleep
  \/ TimeoutSatisfied
  \/ TimeoutReturn

SpecTimeout == InitTimeout /\ [][NextTimeout]_vars

(***************************************************************************)
(* SpecRace: two host threads in create_file at once.  A call is cut where  *)
(* it gives up one guard of a child map and takes the next: find_dir_entry  *)
(* reads a directory's child map (look), drops the read guard and takes the *)
(* write guard for create_dir_entry (make); create_file reads the parent's  *)
(* child map for the leaf (leaf), drops the read guard at line 691 and      *)
(* create_new / create_new_http take the write guard for the insert         *)
(* (create).  The calls in progress are kept in wt, one record per thread.  *)
(* A handle a call has returned may be closed at any time.                  *)
(***************************************************************************)
RaceThreads == {1, 2}

RaceRequests ==
  {r \in DefaultRequests :
     r.path # <<>> /\ r.access = "read" /\ r.attrs = {} /\ r.dirOpt # "nondir"}

RaceIdle ==
  [pc |-> "idle", req |-> [path |-> <<>>], index |-> 0, cur |-> 0, i |-> 0,
   status |-> "none", h |-> 0]

InitRace ==
  /\ id_counter = InitFs.id_counter
  /\ entries = InitFs.entries
  /\ streams = InitFs.streams
  /\ handles = InitFs.handles
  /\ jobs = InitFs.jobs
  /\ aborted = InitFs.aborted
  /\ disposed = InitFs.disposed
  /\ wt = [t \in RaceThreads |-> RaceIdle]
  /\ lk = LkInit
  /\ pool = PoolInit

\* where find_dir_entry goes after component i of the parent chain
RaceAfter(th, i) == IF i > Len(th.req.path) - 1 THEN "leaf" ELSE "look"

RaceReturn(th, r) == [th EXCEPT !.pc = "done", !.status = r.status, !.h = r.handle]

\* create_file up to split_path: next_id (line 427)
RaceStart(t, req) ==
  /\ ~aborted
  /\ wt[t].pc = "idle"
  /\ id_counter <= MaxIndex
  /\ InstallWith([Fs EXCEPT !.id_counter = @ + 1],
                 [wt EXCEPT ![t] = [RaceIdle EXCEPT !.pc = RaceAfter([req |-> req], 1),
                                                    !.req = req, !.index = id_counter,
                                                    !.cur = Root, !.i = 1]])

\* find_dir_entry, lines 115-117 and 156-160: children.get under the read guard
RaceLook(t) ==
  LET th == wt[t]
      key == PlainKey(th.req.path[th.i])
      child == entries[th.cur].children[key]
  IN /\ ~aborted
     /\ th.pc = "look"
     /\ InstallWith(Fs,
          [wt EXCEPT ![t] =
             IF key \notin DOMAIN entries[th.cur].children
             THEN [th EXCEPT !.pc = "make"]
             ELSE IF entries[child].kind = "Directory"
             THEN [th EXCEPT !.pc = RaceAfter(th, th.i + 1), !.cur = child, !.i = @ + 1]
             ELSE RaceReturn(th, Result(Fs, "OBJECT_PATH_NOT_FOUND"))])

\* find_dir_entry, lines 150-154: create_dir_entry under the write guard
RaceMake(t) ==
  LET th == wt[t]
  IN /\ ~aborted
     /\ th.pc = "make"
     /\ InstallWith([Fs EXCEPT !.entries =
                       CreateDirEntry(@, th.index, th.cur, th.req.path[th.i])],
                    [wt EXCEPT ![t] = [th EXCEPT !.pc = RaceAfter(th, th.i + 1),
                                                 !.cur = Len(entries) + 1, !.i = @ + 1]])

\* create_file, lines 483-691: the leaf under the read guard of the parent's
\* child map; the branch of an existing leaf runs under that guard
RaceLeaf(t) ==
  LET th == wt[t]
      key == PlainKey(th.req.path[Len(th.req.path)])
      r == IF key \in DOMAIN entries[th.cur].children
           THEN OpenExisting(Fs, th.index, th.req, entries[th.cur].children[key])
           ELSE Result(Fs, "DELETE_PENDING")
  IN /\ ~aborted
     /\ th.pc = "leaf"
     /\ IF key \notin DOMAIN entries[th.cur].children /\ ~entries[th.cur].delete_pending
        THEN InstallWith(Fs, [wt EXCEPT ![t] = [th EXCEPT !.pc = "create"]])
        ELSE InstallWith(r.fs, [wt EXCEPT ![t] = RaceReturn(th, r)])

\* create_file, lines 692-743: create_new / create_new_http with their insert
RaceCreate(t) ==
  LET th == wt[t]
      r == OpenAbsent(Fs, th.index, th.req, th.cur)
  IN /\ ~aborted
     /\ th.pc = "create"
     /\ InstallWith(r.fs, [wt EXCEPT ![t] = RaceReturn(th, r)])

\* close_file and drop() of a handle a call has returned: drop() holds the
\* write guard of the parent's child map from before its check to its end
RaceClose(h) ==
  /\ ~aborted
  /\ h \in DOMAIN handles
  /\ InstallWith(DropHandle(Fs, h), wt)

NextRace ==
  \/ \E t \in RaceThreads : \E req \in RaceRequests : RaceStart(t, req)
  \/ \E h \in 1..MaxIndex : RaceClose(h)
  \/ \E t \in RaceThreads : RaceLook(t)
  \/ \E t \in RaceThreads : RaceMake(t)
  \/ \E t \in RaceThreads : RaceLeaf(t)
  \/ \E t \in RaceThreads : RaceCreate(t)

SpecRace == InitRace /\ [][NextRace]_vars

(***************************************************************************)
(* SpecCheckDefault: StreamInfo::check_default applied to one input.        *)
(***************************************************************************)
\* path.rs, lines 16-20: enum StreamType
StreamTypes == {"Data", "IndexAllocation", "Bitmap"}

\* stream names: empty, the pseudo-name of line 32, and others near and far
StreamNames == {"", "$I30", "$I3", "$I300", "I30", "$", "s", "t", "$DATA"}

InitCheckDefault ==
  /\ id_counter = InitFs.id_counter
  /\ entries = InitFs.entries
  /\ streams = InitFs.streams
  /\ handles = InitFs.handles
  /\ jobs = InitFs.jobs
  /\ aborted = InitFs.aborted
  /\ disposed = InitFs.disposed
  /\ lk = LkInit
  /\ pool = PoolInit
  /\ \E name \in StreamNames : \E type \in StreamTypes : \E is_dir \in BOOLEAN :
       wt = [WtIdle EXCEPT !.op = "check_default", !.pc = "call",
                           !.si = [name |-> name, type |-> type],
                           !.is_dir = is_dir]

\* Ok(b) is "true" / "false", Err(STATUS_OBJECT_NAME_INVALID) is "invalid"
CheckDefaultCall ==
  /\ wt.op = "check_default" /\ wt.pc = "call"
  /\ wt' = [wt EXCEPT !.pc = "done", !.res.status = CheckDefault(wt.si, wt.is_dir)]
  /\ UNCHANGED <<id_counter, entries, streams, handles, jobs, aborted, disposed, lk, pool>>

NextCheckDefault == CheckDefaultCall

SpecCheckDefault == InitCheckDefault /\ [][NextCheckDefault]_vars

(***************************************************************************)
(* SpecRead: create_file with every request, stream suffix included,        *)
(* close_file, and read_file through the handles that have no stream bound. *)
(***************************************************************************)
NextRead ==
  \/ \E req \in Requests : CreateFileCall(req)
  \/ \E h \in 1..MaxIndex : CloseCall(h)
  \/ \E h \in 1..MaxIndex : \E offset \in 0..MaxBody : \E buflen \in 1..MaxBody :
       ReadFile(h, offset, buflen)

SpecRead == Init /\ [][NextRead]_vars

(***************************************************************************)
(* SpecIgnore: create_file of a handler built with ignore-filtering         *)
(* (self.ignore is Some).  The Gitignore matcher is outside the model: a    *)
(* call draws the verdicts of matched(path, false) and matched(path, true). *)
(***************************************************************************)
Verdicts == {"None", "Ignore", "Whitelist"}

Ignored(asFile, asDir) == asFile = "Ignore" \/ asDir = "Ignore"

\* create_file that resolves the path before it asks the matcher
DoCreateFileFilteredLate(fs, req, asFile, asDir) ==
  IF Ignored(asFile, asDir)
  THEN Result(DoCreateFile(fs, req).fs, "ACCESS_DENIED")
  ELSE DoCreateFile(fs, req)

\* create_file, lines 426-468: next_id, then the two matches; an Ignore
\* verdict returns ACCESS_DENIED before split_path
DoCreateFileFiltered(fs, req, asFile, asDir) ==
  IF Ignored(asFile, asDir)
  THEN Result([fs EXCEPT !.id_counter = @ + 1], "ACCESS_DENIED")
  ELSE DoCreateFile(fs, req)

IgnoreRequests ==
  {r \in DefaultRequests : r.access # "write" /\ r.attrs = {}}

CreateFileFilteredCall(req, asFile, asDir) ==
  /\ ~aborted
  /\ id_counter <= MaxIndex
  /\ LET r == DoCreateFileFiltered(Fs, req, asFile, asDir)
     IN InstallWith(r.fs, [Returned("create", r.handle, r.status)
                             EXCEPT !.ignored = Ignored(asFile, asDir)])

NextIgnore ==
  \/ \E req \in IgnoreRequests : \E asFile, asDir \in Verdicts :
       CreateFileFilteredCall(req, asFile, asDir)
  \/ \E h \in 1..MaxIndex : CloseCall(h)

SpecIgnore == Init /\ [][NextIgnore]_vars

(***************************************************************************)
(* SpecPool: the worker pool on its own.  Jobs are sent by execute and      *)
(* execute_async, every worker runs the loop of Worker::new, and the pool   *)
(* is dropped at most once.  SpecPoolLive adds the scheduling of the        *)
(* operating system: a thread that can take a step is not held back for     *)
(* ever.                                                                    *)
(***************************************************************************)
UnchangedByPool ==
  UNCHANGED <<id_counter, entries, streams, handles, jobs, aborted, disposed, wt, lk>>

\* the Receiver lives as long as one worker closure owns its Arc
ReceiverLive(P) == \E w \in Workers : P.workers[w].pc \notin {"gone", "dead"}

NewJob(kind, out, st) == [kind |-> kind, out |-> out, st |-> st, runs |-> 0, by |-> 0]

\* execute (kind "Sync") and execute_async (kind "Async"):
\* `self.sender.as_ref().unwrap().send(job).unwrap()`; send fails, and the
\* unwrap panics in the caller, when the Receiver is gone
Execute(kind, out) ==
  /\ pool.sender
  /\ Len(pool.jobs) < MaxJobs
  /\ pool' = IF ReceiverLive(pool)
             THEN [pool EXCEPT !.jobs = Append(@, NewJob(kind, out, "queued")),
                               !.queue = Append(@, Len(pool.jobs) + 1)]
             ELSE [pool EXCEPT !.jobs = Append(@, NewJob(kind, out, "refused"))]
  /\ UnchangedByPool

\* line 113, first half: receiver.lock()
WorkerLock(w) ==
  /\ pool.workers[w].pc = "lock"
  /\ pool.mutex = 0
  /\ pool' = [pool EXCEPT !.mutex = w, !.workers[w].pc = "recv"]
  /\ UnchangedByPool

\* the statement of line 113 if the guard of the mutex lived as long as the
\* message it returned
WorkerRecvKeepsMutex(w) ==
  /\ pool.workers[w].pc = "recv"
  /\ pool.queue # <<>> \/ ~pool.sender
  /\ pool' = IF pool.queue # <<>>
             THEN [pool EXCEPT !.queue = Tail(@),
                               !.workers[w].msg = Head(pool.queue),
                               !.workers[w].pc = "flag"]
             ELSE [pool EXCEPT !.mutex = 0,
                               !.workers[w].msg = Disconnected,
                               !.workers[w].pc = "flag"]
  /\ UnchangedByPool

\* line 113, second half: recv() blocks while the channel is open and empty,
\* returns the oldest message, and returns Err when the channel is closed
\* and empty; the guard of the mutex is a temporary of the statement and is
\* dropped when the statement ends
WorkerRecv(w) ==
  /\ pool.workers[w].pc = "recv"
  /\ pool.queue # <<>> \/ ~pool.sender
  /\ pool' = IF pool.queue # <<>>
             THEN [pool EXCEPT !.queue = Tail(@), !.mutex = 0,
                               !.workers[w].msg = Head(pool.queue),
                               !.workers[w].pc = "flag"]
             ELSE [pool EXCEPT !.mutex = 0,
                               !.workers[w].msg = Disconnected,
                               !.workers[w].pc = "flag"]
  /\ UnchangedByPool

\* lines 114-117: *working = true, whatever the message is
WorkerFlag(w) ==
  /\ pool.workers[w].pc = "flag"
  /\ pool' = [pool EXCEPT !.workers[w].is_working = TRUE, !.workers[w].pc = "match"]
  /\ UnchangedByPool

\* lines 118-139: Ok(job) starts the job, Err(_) breaks out of the loop
\* and the thread returns with is_working still set
WorkerMatch(w) ==
  /\ pool.workers[w].pc = "match"
  /\ LET j == pool.workers[w].msg
     IN pool' = IF j = Disconnected
                THEN [pool EXCEPT !.workers[w].pc = "gone"]
                ELSE [pool EXCEPT !.workers[w].pc = "run",
                                  !.jobs[j].st = "running",
                                  !.jobs[j].runs = @ + 1,
                                  !.jobs[j].by = w]
  /\ UnchangedByPool

\* the messages still in the channel when its Receiver is dropped are
\* dropped with it
DropReceiver(P) ==
  [P EXCEPT !.queue = <<>>,
            !.jobs = [j \in DOMAIN P.jobs |->
                        IF P.jobs[j].st = "queued" THEN [P.jobs[j] EXCEPT !.st = "lost"]
                        ELSE P.jobs[j]]]

\* lines 122-134: f() or rt.block_on(f()); Ok and Err are logged, a panic
\* of the job unwinds the worker thread
WorkerRun(w) ==
  /\ pool.workers[w].pc = "run"
  /\ LET j == pool.workers[w].msg
         out == pool.jobs[j].out
         ran == [pool EXCEPT !.jobs[j].st = out,
                             !.workers[w].pc = IF out = "panic" THEN "dead" ELSE "clear"]
     IN pool' = IF ReceiverLive(ran) THEN ran ELSE DropReceiver(ran)
  /\ UnchangedByPool

\* lines 141-144: *working = false, and the loop starts again
WorkerClear(w) ==
  /\ pool.workers[w].pc = "clear"
  /\ pool' = [pool EXCEPT !.workers[w].is_working = FALSE,
                          !.workers[w].msg = NoJob, !.workers[w].pc = "lock"]
  /\ UnchangedByPool

\* working_num: the workers whose flag is set
working_num(P) == Cardinality({w \in Workers : P.workers[w].is_working})

\* Drop for ThreadPool, line 89: drop(self.sender.take())
DropPool ==
  /\ pool.sender
  /\ pool.drop.pc = "none"
  /\ pool' = [pool EXCEPT !.sender = FALSE, !.drop.pc = "join"]
  /\ UnchangedByPool

\* lines 91-95: worker.thread.join().unwrap() on the workers in order; join
\* returns Err for a thread that panicked, and the unwrap panics in drop
JoinWorker ==
  /\ pool.drop.pc = "join"
  /\ LET w == pool.drop.next
     IN /\ pool.workers[w].pc \in {"gone", "dead"}
        /\ pool' = IF pool.workers[w].pc = "dead"
                   THEN [pool EXCEPT !.drop.pc = "panicked"]
                   ELSE [pool EXCEPT !.drop.next = w + 1,
                                     !.drop.pc = IF w = MaxWorkers THEN "returned"
                                                 ELSE "join"]
  /\ UnchangedByPool

WorkerStep(w) ==
  \/ WorkerLock(w)
  \/ WorkerRecv(w)
  \/ WorkerFlag(w)
  \/ WorkerMatch(w)
  \/ WorkerRun(w)
  \/ WorkerClear(w)

NextPool ==
  \/ \E kind \in JobKinds : \E out \in Outcomes(kind) : Execute(kind, out)
  \/ \E w \in Workers : WorkerStep(w)
  \/ DropPool
  \/ JoinWorker

SpecPool == Init /\ [][NextPool]_vars

SpecPoolLive ==
  /\ Init
  /\ [][NextPool]_vars
  /\ \A w \in Workers : WF_vars(WorkerStep(w))
  /\ WF_vars(JoinWorker)

(***************************************************************************)
(* Properties of the handle life cycle (Spec).                              *)
(***************************************************************************)
\* the handles of entry e that were dropped, in the order of their drops
DisposedOn(e) == SelectSeq(disposed, LAMBDA d : d.entry = e)

LastDisposedOn(e) == DisposedOn(e)[Len(DisposedOn(e))]

InParent(ents, e) == e \in MapVals(ents[ents[e].parent].children)

\* C1: once every handle opened on an entry has been disposed, the entry's
\* handle_count is 0 again, and (while no call has panicked) the entry is
\* still in its parent's child map unless the handle disposed last was
\* opened with delete-on-close.
C1_HandleCountReturnsToZero ==
  \A e \in 1..Len(entries) :
    (HandlesOn(Fs, e) = {} /\ DisposedOn(e) # <<>>) =>
      /\ entries[e].handle_count = 0
      /\ (e # Root /\ ~aborted /\ ~LastDisposedOn(e).delete_on_close)
           => InParent(entries, e)
      /\ (e # Root /\ ~aborted /\ LastDisposedOn(e).delete_on_close
            /\ LastDisposedOn(e).alt_stream = 0)
           => ~InParent(entries, e)

\* C1 witness: an entry whose first disposed handle was delete-on-close and
\* whose last was not: every handle is gone, the count is 0, the entry stays
C1_Witness ==
  \E e \in 2..Len(entries) :
    /\ HandlesOn(Fs, e) = {}
    /\ Len(DisposedOn(e)) = 2
    /\ DisposedOn(e)[1].delete_on_close
    /\ DisposedOn(e)[1].alt_stream = 0
    /\ ~DisposedOn(e)[2].delete_on_close
    /\ entries[e].handle_count = 0
    /\ InParent(entries, e)
    /\ ~aborted

\* the calls that have counted their handle on the Stat of x and not yet
\* returned it, and the disposals that have not yet taken theirs off
CountedOnStat(x) ==
  {t \in HostThreads :
     \/ lk.thr[t].op = "open" /\ lk.thr[t].x = x /\ lk.thr[t].pc \in 13..17
     \/ lk.thr[t].op = "opendir" /\ lk.thr[t].x = x /\ lk.thr[t].pc \in 6..7
     \/ lk.thr[t].op = "drop" /\ lk.thr[t].x = x /\ lk.thr[t].pc <= 7}

\* the same for the stream of handle slot h
CountedOnStream(h) ==
  {t \in HostThreads :
     /\ lk.thr[t].h = h /\ lk.thr[t].s
     /\ \/ lk.thr[t].op = "open" /\ lk.thr[t].pc \in 16..17
        \/ lk.thr[t].op = "drop" /\ lk.thr[t].pc <= 13}

\* C2: in every interleaving, a Stat's handle_count is the number of handles
\* created on the entry and not yet disposed, an AltStream's handle_count is
\* the number of such handles bound to the stream, no decrement takes a
\* counter below 0, and a counter changes only under the write lock of the
\* Stat or AltStream that owns it.
C2_HandleCountIsLiveHandles ==
  ~lk.aborted =>
    /\ \A x \in {"D", "F", "G"} :
         lk.cnt[St(x)] = Cardinality({h \in DOMAIN lk.handles : lk.handles[h].entry = x})
                         + Cardinality(CountedOnStat(x))
    /\ \A h \in Slots :
         lk.cnt[Sm(h)] = Cardinality({g \in DOMAIN lk.handles \cap {h} : lk.handles[g].stream})
                         + Cardinality(CountedOnStream(h))
    /\ \A l \in Counted : lk.cnt[l] >= 0
    /\ \A t \in Busy(lk) :
         StepOf(lk, t).k \in {"inc", "dec"} =>
           /\ StepOf(lk, t).l \in Counted
           /\ <<StepOf(lk, t).l, "W">> \in lk.held[t]
           /\ StepOf(lk, t).k = "dec" => lk.cnt[StepOf(lk, t).l] > 0

\* C2 witness: of two handles created on \D\F, one is being disposed and has
\* just taken itself off its stream and the Stat, the other is live
C2_Witness ==
  \E t \in HostThreads :
    /\ lk.thr[t].op = "drop" /\ lk.thr[t].pc = 14 /\ lk.thr[t].x = "F"
    /\ lk.cnt[Sm(lk.thr[t].h)] = 0
    /\ lk.cnt[St("F")] = 1
    /\ \E g \in DOMAIN lk.handles : lk.handles[g].entry = "F" /\ lk.cnt[Sm(g)] = 1

\* thread t is at a lock it may take, even if no reader passes a waiting writer
CanStep(L, t) ==
  StepOf(L, t).k \in {"acq", "touch"} => CanAcquireFair(L, t, StepOf(L, t).l, StepOf(L, t).m)

\* C4: no interleaving of create_file, close_file and disposal, read_file,
\* get_file_information, find_files and download tasks reaches a state
\* where the calls in progress all wait for a lock; no thread takes the
\* child map of a directory while it holds the Stat of one of its children,
\* and a disposal holds no Stat lock of its target while it waits for the
\* parent's child map.
C4_NoDeadlockLockOrder ==
  ~lk.aborted =>
    /\ Busy(lk) # {} => \E t \in Busy(lk) : CanStep(lk, t)
    /\ \A t \in Busy(lk) : \A d \in {"root", "D", "E"} :
         (StepOf(lk, t).k \in {"acq", "touch"} /\ StepOf(lk, t).l = Ch(d)) =>
           \A x \in {"D", "E", "F", "G"} : ParentOf(x) = d => ~Holds(lk, t, St(x))
    /\ \A t \in Busy(lk) :
         (lk.thr[t].op = "drop" /\ StepOf(lk, t).k = "acq"
            /\ StepOf(lk, t).l = Ch(ParentOf(lk.thr[t].x))) => ~Holds(lk, t, St(lk.thr[t].x))

\* C4 witness: a disposal of a handle on \D\F, past its first look at the
\* Stat, waits for the child map of \D, which a create_file of \D\F holds
\* while it is about to take the Stat of \D\F
C4_Witness ==
  \E t, u \in HostThreads :
    /\ lk.thr[t].op = "drop" /\ lk.thr[t].pc = 5 /\ lk.thr[t].x = "F"
    /\ ~CanAcquire(lk, t, Ch("D"), "W")
    /\ lk.thr[u].op = "open" /\ lk.thr[u].x = "F"
    /\ <<Ch("D"), "R">> \in lk.held[u]
    /\ StepOf(lk, u).k = "acq" /\ StepOf(lk, u).l = St("F")

\* C3: disposing a handle removes its entry from the parent's child map if
\* and only if, after the handle's delete-on-close flag is applied and
\* handle_count is decremented, handle_count is 0 and delete_pending is set;
\* then the parent's modify time is updated, otherwise the parent's child map
\* is unchanged; an entry with a live handle is never removed.
C3_DisposalRemovesIffPending ==
  \A h \in DOMAIN handles :
    LET e == handles[h].entry
        p == entries[e].parent
        r == DropHandle(Fs, h)
        pending == \/ handles[h].delete_on_close /\ handles[h].alt_stream = 0
                   \/ entries[e].delete_pending
        cond == pending /\ entries[e].handle_count - 1 = 0
        removed == InParent(entries, e) /\ ~InParent(r.entries, e)
    IN (e # Root /\ ~aborted) =>
         /\ cond <=> removed
         /\ cond => r.entries[p].mtime > entries[p].mtime
         /\ ~cond => r.entries[p].children = entries[p].children
         /\ removed => HandlesOn(r, e) = {}

\* C5: disposing a handle on the root, delete-on-close or not, never removes
\* the root and never aborts: handle_count is decremented and delete_pending
\* is cleared.
C5_RootDisposalNeverAborts ==
  \A h \in DOMAIN handles :
    (handles[h].entry = Root /\ ~aborted) =>
      LET r == DropHandle(Fs, h)
      IN /\ ~r.aborted
         /\ r.entries[Root].handle_count = entries[Root].handle_count - 1
         /\ ~r.entries[Root].delete_pending
         /\ \A p \in 1..Len(r.entries) : Root \notin MapVals(r.entries[p].children)

(***************************************************************************)
(* Properties of path resolution (Spec).                                    *)
(***************************************************************************)
\* the parent chains of the request paths
ParentChains == {p \in Paths : Len(p) < MaxDepth}

\* the entry a chain of plain names leads to in a tree, 0 if there is none
RECURSIVE Lookup(_, _, _)
Lookup(ents, cur, path) ==
  IF path = <<>> THEN cur
  ELSE IF PlainKey(Head(path)) \in DOMAIN ents[cur].children
       THEN Lookup(ents, ents[cur].children[PlainKey(Head(path))], Tail(path))
       ELSE 0

Prefix(path, i) == SubSeq(path, 1, i)

\* some component of the chain is in the tree as a File or an HttpFile
Blocked(ents, path) ==
  \E i \in 1..Len(path) :
    LET x == Lookup(ents, Root, Prefix(path, i))
    IN x # 0 /\ ents[x].kind # "Directory"

C7_AbsentLeaf ==
  \A req \in HostRequests :
    LET n == Len(req.path)
        chain == FindDirEntry(entries, id_counter, Root, Prefix(req.path, n - 1))
        key == PlainKey(req.path[n])
        r == DoCreateFile(Fs, req)
        new == r.fs.entries[chain.dir].children[key]
        added == DOMAIN r.fs.jobs \ DOMAIN jobs
    IN (/\ ~aborted /\ n > 0 /\ req.dirOpt # "dir"
        /\ chain.status = "OK"
        /\ key \notin DOMAIN chain.entries[chain.dir].children) =>
         /\ r.status = "SUCCESS"
         /\ key \in DOMAIN r.fs.entries[chain.dir].children
         /\ new > Len(chain.entries)
         /\ r.fs.entries[new].handle_count = 1
         /\ r.fs.handles[r.handle].entry = new
         /\ IF req.disp \in {"Open", "Overwrite"}
            THEN /\ r.fs.entries[new].kind = "HttpFile"
                 /\ Cardinality(added) = 1
                 /\ \A j \in added : r.fs.handles[r.handle].alt_stream = r.fs.jobs[j].stream
            ELSE /\ r.fs.entries[new].kind = "File"
                 /\ r.fs.entries[new].data = <<>>
                 /\ added = {}

(***************************************************************************)
(* Properties of the waits on a download stream (SpecWait).                 *)
(***************************************************************************)
\* C8: once the download task has written the declared content length L
\* into the stream, every later get_file_information on the handle returns
\* file_size = L, for every declared L; a call that began earlier and
\* succeeds returns L as well.
C8_GetInfoReturnsDeclared ==
  (wt.op = "info" /\ wt.pc = "done") =>
    LET j == JobOf(Fs, handles[wt.h].alt_stream)
    IN /\ wt.known => wt.res.status = "SUCCESS"
       /\ wt.res.status = "SUCCESS" => wt.res.size = jobs[j].declared

\* C9: a read of [offset, offset + len) through a stream-bound handle either
\* returns exactly len bytes, the stream's bytes at that range, or fails with
\* the I/O-timeout status after its wait budget is exhausted; it never
\* returns fewer bytes than requested as a success.
C9_ReadBlocksOrTimesOut ==
  (wt.op = "read" /\ wt.pc = "done") =>
    LET data == streams[handles[wt.h].alt_stream].data
    IN \/ /\ wt.res.status = "SUCCESS"
          /\ Len(wt.res.bytes) = wt.buflen
          /\ wt.res.bytes = SubSeq(data, wt.offset + 1, wt.offset + wt.buflen)
       \/ /\ wt.res.status = "IO_TIMEOUT"
          /\ wt.timeout <= 0

(***************************************************************************)
(* Properties of re-opening a fetch-through entry (SpecDl).                 *)
(***************************************************************************)
\* the bytes a job has fetched so far
Fetched(job) == [i \in 1..job.sent |-> RemoteByte(i)]

\* C10: each successful Open/OpenIf of an existing HttpFile sets its
\* download_pending, submits exactly one new job and binds the new handle to
\* a new AltStream (no data, content_length 0) that no other handle shares;
\* live handles on an HttpFile never share a stream, and a stream holds only
\* the bytes its own job fetched.
C10_ReopenStartsFreshFetch ==
  /\ \A req \in HostRequests :
       LET n == Len(req.path)
           chain == FindDirEntry(entries, id_counter, Root, Prefix(req.path, n - 1))
           key == PlainKey(req.path[n])
           e == chain.entries[chain.dir].children[key]
           r == DoCreateFile(Fs, req)
           s == r.fs.handles[r.handle].alt_stream
           added == DOMAIN r.fs.jobs \ DOMAIN jobs
       IN (/\ ~aborted /\ n > 0 /\ chain.status = "OK"
           /\ key \in DOMAIN chain.entries[chain.dir].children
           /\ chain.entries[e].kind = "HttpFile"
           /\ req.disp \in {"Open", "OpenIf"}
           /\ r.status = "SUCCESS") =>
            /\ r.fs.entries[e].download_pending
            /\ Cardinality(added) = 1
            /\ \A j \in added : r.fs.jobs[j].stream = s /\ r.fs.jobs[j].st = "queued"
            /\ s > Len(streams)
            /\ r.fs.streams[s] = [NewAltStream EXCEPT !.handle_count = 1]
            /\ \A h \in DOMAIN r.fs.handles :
                 h # r.handle => r.fs.handles[h].alt_stream # s
  /\ \A h1, h2 \in DOMAIN handles :
       (h1 # h2 /\ entries[handles[h1].entry].kind = "HttpFile")
         => handles[h1].alt_stream # handles[h2].alt_stream
  /\ \A j \in DOMAIN jobs : streams[jobs[j].stream].data = Fetched(jobs[j])

\* C10 witness: two live handles on one HttpFile; the download of the first
\* has ended with bytes in its stream, the second was bound to an empty
\* stream and the entry is pending again
C10_Witness ==
  \E h1, h2 \in DOMAIN handles :
    /\ h1 < h2
    /\ handles[h1].entry = handles[h2].entry
    /\ entries[handles[h1].entry].kind = "HttpFile"
    /\ jobs[h1].st = "ended"
    /\ streams[handles[h1].alt_stream].data # <<>>
    /\ streams[handles[h2].alt_stream].data = <<>>
    /\ streams[handles[h2].alt_stream].content_length = 0
    /\ entries[handles[h1].entry].download_pending

(***************************************************************************)
(* Properties of the download task (SpecDl).                                *)
(***************************************************************************)
\* the task of job j has ended: it returned Ok or Err, or it panicked
TaskEnded(j) == jobs[j].st \in {"ended", "failed", "panicked"}

\* the entry of job j was opened again after j was submitted
OpenedAgain(j) == \E k \in DOMAIN jobs : k > j /\ jobs[k].entry = jobs[j].entry

\* C11: every download task that has ended, by success or by failure, has run
\* its completion callback, so the download_pending of its HttpFile is false
\* once the task has ended, unless the entry was opened again afterwards.
C11_EndedTaskClearedPending ==
  \A j \in DOMAIN jobs :
    (TaskEnded(j) /\ ~OpenedAgain(j)) => ~entries[jobs[j].entry].download_pending

\* C13: the task of an open that asked for read-attributes only ends normally
\* right after the response headers: the declared content length is in the
\* stream, no byte was appended, and no assertion failed, whether or not the
\* response declares a content length.
C13_AttrOnlyTaskEndsAfterHeaders ==
  \A j \in DOMAIN jobs :
    (~jobs[j].full /\ jobs[j].st \notin {"queued", "failed"}) =>
      /\ jobs[j].st = "ended"
      /\ streams[jobs[j].stream].data = <<>>
      /\ jobs[j].declared # NoLength
           => streams[jobs[j].stream].content_length = jobs[j].declared

(***************************************************************************)
(* Properties of a failed GET and of waits without cancellation             *)
(* (SpecWait, SpecCancel).                                                  *)
(***************************************************************************)
\* C12: after the GET of a download task has failed, the bound stream keeps
\* content_length 0 and no data, the task has not cleared download_pending,
\* and every get_file_information or read_file that waits on the stream ends
\* with the timeout failure once its budget is spent, after a bounded number
\* of polls, and returns no data.
C12_FailedGetLeavesWaitersToTimeout ==
  \A j \in DOMAIN jobs :
    jobs[j].st = "failed" =>
      /\ streams[jobs[j].stream].content_length = 0
      /\ streams[jobs[j].stream].data = <<>>
      /\ entries[jobs[j].entry].download_pending
      /\ wt.pc = "wait" => wt.timeout \in 0..(IF wt.op = "info" THEN GetInfoBudget ELSE ReadBudget)
      /\ wt.pc = "done" =>
           /\ wt.res.status = "IO_TIMEOUT"
           /\ wt.timeout <= 0
           /\ wt.res.bytes = <<>> /\ wt.res.size = 0

\* a wait on the stream of job j has ended in its timeout path
TimedOutOn(j) ==
  /\ wt.pc = "done" /\ wt.timeout <= 0
  /\ wt.res.status \in {InfoOnTimeout, ReadOnTimeout}

\* no handle is bound to the stream of job j any more
ClosedOn(j) == \A h \in DOMAIN handles : handles[h].alt_stream # jobs[j].stream

\* C15: a wait that timed out and the close of the handle cancel nothing: in
\* every state, also after them, a download task that has not ended can take
\* its next step, and that step still writes content_length, appends the
\* data, and on success clears download_pending.
C15_FetchGoesOnAfterTimeoutAndClose ==
  \A j \in DOMAIN jobs :
    LET s == jobs[j].stream
    IN /\ jobs[j].st = "queued" =>
            /\ ENABLED DownloadGetFailed(j)
            /\ \A rsp \in Responses :
                 rsp.declared = rsp.total =>
                   /\ ENABLED DownloadHeaders(j, rsp)
                   /\ TaskHeaders(Fs, j, rsp).streams[s].content_length = rsp.declared
       /\ (jobs[j].st = "body" /\ Len(streams[s].data) < jobs[j].total) =>
            /\ ENABLED DownloadChunk(j)
            /\ TaskChunk(Fs, j).streams[s].data
                 = Append(streams[s].data, RemoteByte(Len(streams[s].data) + 1))
       /\ (jobs[j].st = "body" /\ Len(streams[s].data) = jobs[j].total) =>
            /\ ENABLED DownloadDone(j)
            /\ ~TaskDone(Fs, j).entries[jobs[j].entry].download_pending

\* C15 witness: the read timed out, the handle was closed, and the task has
\* since brought the bytes the read had waited for and cleared the flag
C15_Witness ==
  \E j \in DOMAIN jobs :
    /\ TimedOutOn(j) /\ wt.op = "read" /\ ClosedOn(j)
    /\ disposed # <<>>
    /\ jobs[j].st = "ended" /\ jobs[j].full
    /\ Len(streams[jobs[j].stream].data) >= wt.offset + wt.buflen
    /\ ~entries[jobs[j].entry].download_pending

(***************************************************************************)
(* Properties of the stream lock of a download task (SpecLocks).            *)
(***************************************************************************)
\* no thread holds the write lock of the stream of handle slot h
StreamFree(h) == \A t \in LkThreads : <<Sm(h), "W">> \notin lk.held[t]

Submitted == DOMAIN pool.jobs

Executing(w) == pool.workers[w].pc = "run"

RunningOn(j) == {w \in Workers : Executing(w) /\ pool.workers[w].msg = j}

\* C17: in a pool of N workers at most N jobs are executing; a worker
\* executes one job at a time and holds it until the job is over, a job
\* that is executing is on exactly one worker, working_num() is at most N
\* and counts every worker that is executing a job, and a worker that is
\* executing a job does not hold the mutex of the queue.
C17_WorkersRunOneJobEach ==
  /\ Cardinality({j \in Submitted : pool.jobs[j].st = "running"}) <= MaxWorkers
  /\ working_num(pool) <= MaxWorkers
  /\ \A w \in Workers :
       Executing(w) =>
         /\ pool.workers[w].msg \in Submitted
         /\ pool.jobs[pool.workers[w].msg].st = "running"
         /\ pool.jobs[pool.workers[w].msg].by = w
         /\ pool.workers[w].is_working
         /\ pool.mutex # w
  /\ \A j \in Submitted :
       /\ pool.jobs[j].st = "running" => RunningOn(j) = {pool.jobs[j].by}
       /\ pool.jobs[j].st # "running" => RunningOn(j) = {}
  /\ \A w \in Workers :
       pool.workers[w].pc \in {"lock", "recv"} =>
         /\ pool.workers[w].msg = NoJob
         /\ \A j \in Submitted : pool.jobs[j].by = w => pool.jobs[j].st # "running"

\* every worker of the pool is executing a job of its own at the same time
C17_Witness ==
  /\ \A w \in Workers : Executing(w)
  /\ working_num(pool) = MaxWorkers
  /\ Cardinality({pool.workers[w].msg : w \in Workers}) = MaxWorkers


Finished(j) == pool.jobs[j].st \in {"ok", "err", "panic"}

InQueue(j) == {i \in DOMAIN pool.queue : pool.queue[i] = j}

\* the workers that received job j and have not started it yet
Received(j) ==
  {w \in Workers : pool.workers[w].pc \in {"flag", "match"} /\ pool.workers[w].msg = j}

\* C16: every job sent with execute or execute_async before teardown is
\* executed exactly once, by one worker: it is never run twice and never
\* dropped, while it waits it is once in the queue or in the hand of the one
\* worker that received it, and (every job terminating, every thread being
\* scheduled) it is eventually executed.
C16_EveryJobRunsOnce ==
  /\ [](\A j \in Submitted :
          /\ pool.jobs[j].runs <= 1
          /\ pool.jobs[j].st \notin {"lost", "refused"}
          /\ Cardinality(InQueue(j)) + Cardinality(Received(j))
               = (IF pool.jobs[j].st = "queued" THEN 1 ELSE 0)
          /\ pool.jobs[j].runs = 1 <=> (pool.jobs[j].st = "running" \/ Finished(j))
          /\ pool.jobs[j].runs = 1 => pool.jobs[j].by \in Workers)
  /\ \A j \in 1..MaxJobs :
       (j \in Submitted) ~> (j \in Submitted /\ Finished(j) /\ pool.jobs[j].runs = 1)

\* C18: dropping the pool closes the queue before it joins a worker; a
\* worker thread has ended only if the queue is closed and empty; when the
\* drop has returned every worker has left its loop and every job that was
\* sent has been executed once; and a drop that has started returns.
C18_TeardownDrainsAndJoins ==
  /\ [](pool.drop.pc # "none" => ~pool.sender)
  /\ [](\A w \in Workers :
          pool.workers[w].pc \in {"gone", "dead"} => ~pool.sender /\ pool.queue = <<>>)
  /\ [](pool.drop.pc = "returned" =>
          /\ \A w \in Workers : pool.workers[w].pc = "gone"
          /\ \A j \in Submitted : Finished(j) /\ pool.jobs[j].runs = 1)
  /\ (pool.drop.pc = "join") ~> (pool.drop.pc = "returned")

\* C19: a download job that failed, at the GET (Err) or at a body chunk
\* (panic), leaves its worker alive: the thread has not ended, its busy
\* flag is clear once it is back at the queue, no later job is refused or
\* lost, and until teardown the pool has all its N workers.
C19_FailedJobLeavesWorkerAlive ==
  /\ \A j \in Submitted :
       (pool.jobs[j].kind = "Async" /\ pool.jobs[j].st \in {"err", "panic"}) =>
         pool.workers[pool.jobs[j].by].pc # "dead"
  /\ \A w \in Workers :
       /\ pool.workers[w].pc \in {"lock", "recv"} => ~pool.workers[w].is_working
       /\ pool.sender => pool.workers[w].pc \notin {"gone", "dead"}
  /\ \A j \in Submitted : pool.jobs[j].st \notin {"lost", "refused"}


(***************************************************************************)
(* Properties of create_file on an existing leaf (SpecOpen).                *)
(***************************************************************************)
HandleCounts(fs) ==
  <<[e \in DOMAIN fs.entries |-> fs.entries[e].handle_count],
    [s \in DOMAIN fs.streams |-> fs.streams[s].handle_count]>>

\* the state in which the Stat of entry e has delete_pending = dp; drop()
\* sets and clears the flag under the write guards it holds, so create_file
\* finds it clear in the reachable states and the order of the three checks
\* shows only on this input
WithDeletePending(fs, e, dp) == [fs EXCEPT !.entries[e].delete_pending = dp]

\* the status lines 503-518 give to a request on an existing leaf
Rejection(req, dp) ==
  IF req.access = "write" THEN "ACCESS_DENIED"
  ELSE IF dp THEN "DELETE_PENDING"
  ELSE IF req.doc THEN "CANNOT_DELETE"
  ELSE "none"

\* C20: create_file on a leaf that is in its parent's child map fails with
\* ACCESS_DENIED when write or append access is asked for, else with
\* DELETE_PENDING when the entry's delete_pending is set, else with
\* CANNOT_DELETE when delete-on-close is asked for, whether the READONLY
\* bit is stored on the entry or not; and the rejected request creates no
\* handle and changes no handle_count of an entry or a stream.
C20_ExistingLeafRejectsWriteAndDelete ==
  \A req \in Requests :
    LET e == Lookup(entries, Root, req.path)
    IN (req.path # <<>> /\ e # 0) =>
         \A dp \in BOOLEAN :
           LET before == WithDeletePending(Fs, e, dp)
               r == DoCreateFile(before, req)
           IN Rejection(req, dp) # "none" =>
                /\ r.status = Rejection(req, dp)
                /\ r.handle = 0
                /\ r.fs.handles = before.handles
                /\ HandleCounts(r.fs) = HandleCounts(before)

\* two create_file calls were made and one handle came of them; the leaf it
\* is open on has no READONLY bit stored, and a request for delete-on-close
\* and one for write access on that leaf are rejected in this state
C20_Witness ==
  /\ id_counter = 3
  /\ Cardinality(DOMAIN handles) + Len(disposed) = 1
  /\ \E req \in Requests :
       LET e == Lookup(entries, Root, req.path)
       IN /\ req.path # <<>> /\ e # 0
          /\ "READONLY" \notin entries[e].attrs
          /\ ~entries[e].delete_pending
          /\ HandlesOn(Fs, e) # {}
          /\ req.doc /\ req.access = "read"
          /\ DoCreateFile(Fs, req).status = "CANNOT_DELETE"
          /\ DoCreateFile(Fs, [req EXCEPT !.access = "write"]).status = "ACCESS_DENIED"


(***************************************************************************)
(* Properties of create_file on the default content of an entry and of the  *)
(* calls on a handle without a stream (SpecFile).                           *)
(***************************************************************************)
Truncating == {"Supersede", "Overwrite", "OverwriteIf"}

\* the leaf of the request is in the tree, is of one of the kinds, and the
\* request passes the checks that come before the match on the kind of the
\* entry (lines 503-518: write access, delete_pending, delete-on-close)
ReachesLeaf(req, kinds) ==
  LET e == Lookup(entries, Root, req.path)
  IN /\ req.path # <<>>
     /\ e # 0
     /\ entries[e].kind \in kinds
     /\ Rejection(req, entries[e].delete_pending) = "none"

HiddenSystemLost(stat, req) ==
  {"HIDDEN", "SYSTEM"} \subseteq stat.attrs /\ ~({"HIDDEN", "SYSTEM"} \subseteq req.attrs)

\* what create_file does to an existing File, the test "is readonly" given
FileOpenAsStated(req, readonly) ==
  LET e == Lookup(entries, Root, req.path)
      stat == entries[e]
      r == DoCreateFile(Fs, req)
      after == r.fs.entries[e]
      denied == \/ req.disp \in {"Overwrite", "OverwriteIf"} /\ readonly
                \/ HiddenSystemLost(stat, req)
  IN IF req.disp \in Truncating
     THEN IF denied
          THEN /\ r.status = "ACCESS_DENIED"
               /\ after = stat
          ELSE /\ r.status = "SUCCESS"
               /\ after.data = <<>>
               /\ after.attrs = req.attrs \cup {"ARCHIVE"}
               /\ after.mtime > stat.mtime
     ELSE IF req.disp = "Create"
     THEN r.status = "OBJECT_NAME_COLLISION" /\ after = stat
     ELSE /\ r.status = "SUCCESS"
          /\ after = [stat EXCEPT !.handle_count = @ + 1]

\* C21: create_file on the default content of an existing File: Overwrite,
\* OverwriteIf and Supersede clear the buffer, store the requested
\* attributes plus ARCHIVE and move the modify time on, except that
\* Overwrite and OverwriteIf on a File whose READONLY bit is set, and any of
\* the three on a hidden+system File when the request does not carry both
\* flags, return ACCESS_DENIED and change nothing; Create returns
\* OBJECT_NAME_COLLISION; Open and OpenIf open the File as it is.
C21_ExistingFileByDisposition ==
  \A req \in DefaultRequests :
    (ReachesLeaf(req, {"File"}) /\ req.dirOpt # "dir") =>
      FileOpenAsStated(req, "READONLY" \in entries[Lookup(entries, Root, req.path)].attrs)


\* the parts of the state a create_file that fails on an existing entry
\* could have touched: the handles, the counts, the fetch flags, the jobs
\* and the streams
OpenFootprint(fs) ==
  [handles |-> fs.handles,
   counts |-> HandleCounts(fs),
   pending |-> [e \in DOMAIN fs.entries |-> fs.entries[e].download_pending],
   jobs |-> fs.jobs,
   streams |-> fs.streams]

\* C22: create_file on the default content of an existing HttpFile or
\* Directory returns SUCCESS only for Open and OpenIf; a request that gets
\* as far as the disposition returns a handle for Open and OpenIf,
\* OBJECT_NAME_COLLISION for Create and INVALID_PARAMETER for Overwrite,
\* OverwriteIf and Supersede; and a request that fails creates no handle,
\* leaves download_pending as it was and submits no download job.
C22_ExistingHttpFileOrDirectoryByDisposition ==
  \A req \in DefaultRequests :
    LET e == Lookup(entries, Root, req.path)
        r == DoCreateFile(Fs, req)
    IN (req.path # <<>> /\ e # 0 /\ entries[e].kind \in {"HttpFile", "Directory"}) =>
         /\ r.status = "SUCCESS" => req.disp \in {"Open", "OpenIf"}
         /\ r.status # "SUCCESS" =>
              r.handle = 0 /\ OpenFootprint(r.fs) = OpenFootprint(Fs)
         /\ (/\ ReachesLeaf(req, {"HttpFile", "Directory"})
             /\ req.dirOpt # (IF entries[e].kind = "HttpFile" THEN "dir" ELSE "nondir")) =>
              r.status = CASE req.disp \in {"Open", "OpenIf"} -> "SUCCESS"
                           [] req.disp = "Create" -> "OBJECT_NAME_COLLISION"
                           [] OTHER -> "INVALID_PARAMETER"

\* the last call was a create_file that found an HttpFile whose fetch has
\* ended and returned OBJECT_NAME_COLLISION; the one job is the job of the
\* first open and the flag is still clear
C22_Witness ==
  /\ wt.op = "create" /\ wt.res.status = "OBJECT_NAME_COLLISION"
  /\ \E e \in 2..Len(entries) :
       /\ entries[e].kind = "HttpFile" /\ InParent(entries, e)
       /\ ~entries[e].download_pending
  /\ Cardinality(DOMAIN jobs) = 1
  /\ Cardinality(DOMAIN handles) + Len(disposed) = 1


\* C23: create_file with FILE_DIRECTORY_FILE on an existing File or
\* HttpFile returns NOT_A_DIRECTORY, with FILE_NON_DIRECTORY_FILE on an
\* existing Directory it returns FILE_IS_A_DIRECTORY, and neither creates a
\* handle.
C23_OptionAgainstKindOfLeaf ==
  \A req \in DefaultRequests :
    LET e == Lookup(entries, Root, req.path)
        r == DoCreateFile(Fs, req)
    IN /\ (ReachesLeaf(req, {"File", "HttpFile"}) /\ req.dirOpt = "dir") =>
            /\ r.status = "NOT_A_DIRECTORY"
            /\ r.handle = 0 /\ r.fs.handles = handles
       /\ (ReachesLeaf(req, {"Directory"}) /\ req.dirOpt = "nondir") =>
            /\ r.status = "FILE_IS_A_DIRECTORY"
            /\ r.handle = 0 /\ r.fs.handles = handles


\* what create_file with FILE_DIRECTORY_FILE does for a leaf that is not in
\* the child map of its parent, the parent having delete_pending = dp (a
\* parent that the call itself creates has it clear); refused is the
\* request that create_new turns down
AbsentLeafAsDirectory(req, dp, refused) ==
  LET n == Len(req.path)
      chain == SubSeq(req.path, 1, n - 1)
      known == Lookup(entries, Root, chain)
      before == IF known # 0 THEN WithDeletePending(Fs, known, dp) ELSE Fs
      found == FindDirEntry(before.entries, before.id_counter, Root, chain)
      key == PlainKey(req.path[n])
      r == DoCreateFile(before, req)
      untouched == /\ r.handle = 0
                   /\ r.fs.entries = found.entries
                   /\ r.fs.handles = before.handles
  IN (/\ req.dirOpt = "dir" /\ n >= 1
      /\ dp => known # 0
      /\ found.status = "OK"
      /\ key \notin DOMAIN found.entries[found.dir].children) =>
       IF dp THEN r.status = "DELETE_PENDING" /\ untouched
       ELSE IF req.disp \in {"Create", "OpenIf"}
       THEN IF refused
            THEN r.status = "CANNOT_DELETE" /\ untouched
            ELSE /\ r.status = "SUCCESS"
                 /\ key \in DOMAIN r.fs.entries[found.dir].children
                 /\ LET new == r.fs.entries[r.fs.entries[found.dir].children[key]]
                    IN /\ new.kind = "Directory"
                       /\ new.children = EmptyMap
                       /\ new.parent = found.dir
                 /\ r.fs.entries[found.dir].mtime > found.entries[found.dir].mtime
       ELSE IF req.disp = "Open"
       THEN r.status = "OBJECT_NAME_NOT_FOUND" /\ untouched
       ELSE r.status = "INVALID_PARAMETER" /\ untouched

C25_RootOpensOnlyWithOpen ==
  \A req \in DefaultRequests :
    req.path = <<>> =>
      LET r == DoCreateFile(Fs, req)
          failed(status) ==
            /\ r.status = status
            /\ r.handle = 0
            /\ r.fs.handles = handles
            /\ r.fs.entries[Root].handle_count = entries[Root].handle_count
      IN IF req.disp \notin {"Open", "OpenIf"} THEN failed("INVALID_PARAMETER")
         ELSE IF req.dirOpt = "nondir" THEN failed("FILE_IS_A_DIRECTORY")
         ELSE /\ r.status = "SUCCESS"
              /\ r.handle \in DOMAIN r.fs.handles /\ r.handle \notin DOMAIN handles
              /\ r.fs.handles[r.handle].entry = Root
              /\ r.fs.handles[r.handle].alt_stream = 0
              /\ r.fs.entries[Root].kind = "Directory"
              /\ r.fs.entries[Root].handle_count = entries[Root].handle_count + 1

\* the last create_file returned the second handle on the root
C25_Witness ==
  /\ wt.op = "create" /\ wt.res.status = "SUCCESS"
  /\ wt.h \in DOMAIN handles
  /\ HandlesOn(Fs, Root) = {1, 2}
  /\ entries[Root].handle_count = 2


(***************************************************************************)
(* Properties of create_file with ignore-filtering (SpecIgnore).            *)
(***************************************************************************)
\* C26: when the matcher returns Ignore for the path, as a file or as a
\* directory, create_file returns ACCESS_DENIED before it resolves the
\* path: no directory of the chain is created, no entry is inserted, no
\* handle is created, no handle_count changes and no download job is
\* submitted.
C26_IgnoredPathTouchesNothing ==
  \A req \in IgnoreRequests : \A asFile, asDir \in Verdicts :
    Ignored(asFile, asDir) =>
      LET r == DoCreateFileFiltered(Fs, req, asFile, asDir)
      IN /\ r.status = "ACCESS_DENIED"
         /\ r.handle = 0
         /\ r.fs.entries = entries
         /\ r.fs.streams = streams
         /\ r.fs.handles = handles
         /\ r.fs.jobs = jobs

\* the last create_file was ignored; the call before it had created a
\* directory, an HttpFile below it, and the one download job there is
C26_Witness ==
  /\ wt.op = "create" /\ wt.ignored /\ wt.res.status = "ACCESS_DENIED"
  /\ id_counter = 3
  /\ Len(entries) = 3
  /\ Cardinality(DOMAIN jobs) = 1
  /\ Cardinality(DOMAIN handles) = 1


(***************************************************************************)
(* Properties of drop() for a handle bound to an AltStream (Spec).          *)
(***************************************************************************)
InStreamMap(fs, e, s) == MapKeysOf(fs.entries[e].alt_streams, s) # {}

ParentsOf(fs, e) ==
  {p \in 1..Len(fs.entries) : MapKeysOf(fs.entries[p].children, e) # {}}

\* C27: disposing a handle bound to an AltStream takes 1 from the stream's
\* handle_count and, if the handle carries delete-on-close, sets the
\* stream's delete_pending and not the entry's; the stream leaves the
\* entry's stream map exactly when its count has reached 0 with
\* delete_pending set, a stream marked by a handle that is not the last stays
\* marked (and in the map) while handles remain, and the entry itself stays
\* in its parent's child map.
C27_StreamHandleDisposal ==
  /\ \A h \in DOMAIN handles :
       (~aborted /\ handles[h].alt_stream # 0) =>
         LET s == handles[h].alt_stream
             e == handles[h].entry
             r == DropHandle(Fs, h)
             gone == InStreamMap(Fs, e, s) /\ ~InStreamMap(r, e, s)
         IN /\ ~r.aborted
            /\ r.streams[s].handle_count = streams[s].handle_count - 1
            /\ r.streams[s].handle_count >= 0
            /\ r.streams[s].delete_pending =
                 (streams[s].delete_pending \/ handles[h].delete_on_close)
            /\ ~r.entries[e].delete_pending
            /\ gone <=> (r.streams[s].handle_count = 0 /\ r.streams[s].delete_pending)
            /\ (r.streams[s].handle_count = 0 /\ r.streams[s].delete_pending)
                 => InStreamMap(Fs, e, s)
            /\ ParentsOf(r, e) = ParentsOf(Fs, e)
  /\ \A e \in 1..Len(entries) : \A k \in DOMAIN entries[e].alt_streams :
       streams[entries[e].alt_streams[k]].delete_pending
         => streams[entries[e].alt_streams[k]].handle_count > 0

\* two handles were bound to one stream; the first closed carried
\* delete-on-close, the stream left the map only when the second was closed,
\* and the entry is still a child of the root
C27_Witness ==
  /\ Len(disposed) = 2
  /\ disposed[1].alt_stream # 0
  /\ disposed[1].alt_stream = disposed[2].alt_stream
  /\ disposed[1].entry = disposed[2].entry
  /\ disposed[1].delete_on_close
  /\ ~InStreamMap(Fs, disposed[1].entry, disposed[1].alt_stream)
  /\ streams[disposed[1].alt_stream].delete_pending
  /\ streams[disposed[1].alt_stream].handle_count = 0
  /\ Root \in ParentsOf(Fs, disposed[1].entry)
  /\ ~aborted


(***************************************************************************)
(* Properties of delete_directory, write_file, set_end_of_file and          *)
(* read_file on the default content (SpecFile).                             *)
(***************************************************************************)
\* the call that has just returned was `op` on a handle of an entry of
\* kind `kind` with no stream bound
ReturnedOn(op, kind) ==
  /\ wt.op = op /\ wt.pc = "done"
  /\ wt.h \in DOMAIN handles
  /\ handles[wt.h].alt_stream = 0
  /\ entries[handles[wt.h].entry].kind = kind

\* C28: delete_directory with delete-on-close on a directory that has
\* children returns DIRECTORY_NOT_EMPTY and the directory stays in the tree;
\* delete_directory without delete-on-close returns success and sets the
\* directory's delete_pending while it stays in the tree with its handles;
\* delete_directory on the root is rejected.
C28_DeleteDirectoryOutcome ==
  ReturnedOn("delete_directory", "Directory") =>
    LET e == handles[wt.h].entry
    IN IF e = Root
       THEN wt.res.status # "SUCCESS"
       ELSE IF wt.doc
       THEN entries[e].children # EmptyMap =>
              (wt.res.status = "DIRECTORY_NOT_EMPTY" /\ ParentsOf(Fs, e) # {})
       ELSE /\ wt.res.status = "SUCCESS"
            /\ entries[e].delete_pending
            /\ ParentsOf(Fs, e) # {}

\* C29: write_file of N bytes at offset 0 on a local File succeeds and a
\* read of [0, N) then returns the bytes written; after set_end_of_file(k)
\* a read that starts before k and extends past k returns only the bytes
\* up to k.
C29_WriteReadRoundTrip ==
  /\ ReturnedOn("write", "File") =>
       /\ wt.res.status = "SUCCESS"
       /\ DoRead(entries[handles[wt.h].entry].data, 0, Len(wt.data)) = wt.data
  /\ ReturnedOn("set_end_of_file", "File") =>
       /\ wt.res.status = "SUCCESS"
       /\ \A offset \in 0..MaxBody : \A buflen \in 1..(MaxBody + 1) :
            (offset < wt.offset /\ offset + buflen > wt.offset) =>
              Len(DoRead(entries[handles[wt.h].entry].data, offset, buflen))
                = wt.offset - offset

\* C30: read_file on a handle of a local File with no stream bound returns
\* at once min(buffer length, file length - offset) bytes of the File's
\* buffer from offset on, and does not abort.
C30_FileReadCopiesBuffer ==
  ReturnedOn("read", "File") =>
    /\ ~aborted
    /\ wt.res.status = "SUCCESS"
    /\ wt.res.bytes = DoRead(entries[handles[wt.h].entry].data, wt.offset, wt.buflen)


(***************************************************************************)
(* Properties of the handles on HttpFile entries (SpecRead).                *)
(***************************************************************************)
HttpHandles == {h \in DOMAIN handles : entries[handles[h].entry].kind = "HttpFile"}

\* C31: every live handle on an HttpFile has an AltStream bound, and no
\* read_file that has returned went through the branch for an HttpFile
\* without a stream.
C31_HttpFileHandlesAreStreamBound ==
  /\ \A h \in HttpHandles : handles[h].alt_stream # 0
  /\ ~ReturnedOn("read", "HttpFile")

\* an HttpFile has two live handles, the one of its creation and the one of
\* a later open, each bound to its own stream
C31_Witness ==
  \E h1, h2 \in HttpHandles :
    /\ h1 # h2
    /\ handles[h1].entry = handles[h2].entry
    /\ handles[h1].alt_stream # 0 /\ handles[h2].alt_stream # 0
    /\ handles[h1].alt_stream # handles[h2].alt_stream


(***************************************************************************)
(* Properties of the Stat ids (Spec).                                       *)
(***************************************************************************)
\* C32: no two entries that exist at the same time have the same Stat id,
\* the root (id 0) included, and an entry created later has a larger id.
C32_StatIdsUnique ==
  \A e1, e2 \in 1..Len(entries) :
    (e1 < e2 /\ Alive(Fs, e1) /\ Alive(Fs, e2)) => entries[e1].id < entries[e2].id


(***************************************************************************)
(* Properties of StreamInfo::check_default (SpecCheckDefault).              *)
(***************************************************************************)
PseudoName == "$I30"

\* C33: for a directory check_default returns true for the empty name or
\* the index-allocation pseudo-name with type IndexAllocation, invalid-name
\* for those names with any other type, false for any other name with type
\* Data and invalid-name for any other name with another type; for a file it
\* returns invalid-name for every type but Data and, for Data, true exactly
\* when the name is empty.
C33_CheckDefaultTable ==
  (wt.op = "check_default" /\ wt.pc = "done") =>
    LET implicit == wt.si.name \in {"", PseudoName}
        got == wt.res.status
    IN /\ got \in {"true", "false", "invalid"}
       /\ wt.is_dir =>
            /\ (implicit /\ wt.si.type = "IndexAllocation") => got = "true"
            /\ (implicit /\ wt.si.type # "IndexAllocation") => got = "invalid"
            /\ (~implicit /\ wt.si.type = "Data") => got = "false"
            /\ (~implicit /\ wt.si.type # "Data") => got = "invalid"
       /\ ~wt.is_dir =>
            /\ wt.si.type # "Data" => got = "invalid"
            /\ wt.si.type = "Data" => (got = "true" <=> wt.si.name = "")
            /\ wt.si.type = "Data" => got # "invalid"

\* check_default has returned true for a directory and the pseudo-name
C33_Witness ==
  /\ wt.op = "check_default" /\ wt.pc = "done"
  /\ wt.is_dir /\ wt.si = [name |-> PseudoName, type |-> "IndexAllocation"]
  /\ wt.res.status = "true"


(***************************************************************************)
(* Properties of concurrent create_file calls (SpecRace).                   *)
(***************************************************************************)
RaceDone(t) == wt[t].pc = "done"

\* C34: when two create_file calls for the same absent leaf of the same
\* parent run at once, the insert assert of create_new / create_new_http
\* does not fail, the parent's child map has one entry under the name, and
\* each call returns an error status or a handle on that entry.
C34_ConcurrentCreateOneEntry ==
  \A t, u \in RaceThreads :
    (t # u /\ wt[t].pc \in {"create", "done"} /\ wt[u].pc \in {"create", "done"}
       /\ wt[t].req.path = wt[u].req.path) =>
      /\ ~aborted
      /\ (RaceDone(t) /\ wt[t].status = "SUCCESS" /\ wt[t].h \in DOMAIN handles) =>
           handles[wt[t].h].entry = Lookup(entries, Root, wt[t].req.path)

\* C35: when two path resolutions that share a missing component run at
\* once, one Directory is created for it and both go on in that directory:
\* every entry ever inserted is still in the child map of its parent, and
\* a call that has left a component behind stands in the directory the tree
\* has under that name.  Stated for the states in which no handle has been
\* closed, so that nothing has been removed from the tree.
C35_VivifiedDirectoryIsShared ==
  /\ (~aborted /\ disposed = <<>>) => \A e \in 2..Len(entries) : InParent(entries, e)
  /\ \A t \in RaceThreads :
       (~aborted /\ disposed = <<>> /\ wt[t].pc \in {"look", "make", "leaf", "create"}) =>
         wt[t].cur = Lookup(entries, Root, SubSeq(wt[t].req.path, 1, wt[t].i - 1))


(***************************************************************************)
(* Properties of the tree under create_file and close_file (Spec).          *)
(***************************************************************************)
\* e is reached from the root through child maps along its parent references
RECURSIVE LinkedToRoot(_, _)
LinkedToRoot(e, fuel) ==
  \/ e = Root
  \/ /\ fuel > 0
     /\ entries[e].parent # 0
     /\ InParent(entries, e)
     /\ LinkedToRoot(entries[e].parent, fuel - 1)

\* C36: every entry other than the root that has a live handle is in the
\* child map of the directory its parent reference names, and that directory
\* is reached from the root; a directory with children is never taken out of
\* the tree by the disposal of a delete-on-close handle.
C36_OpenEntriesStayInTree ==
  ~aborted =>
    /\ \A h \in DOMAIN handles : LinkedToRoot(handles[h].entry, MaxDepth + 1)
    /\ \A e \in 2..Len(entries) :
         (entries[e].kind = "Directory" /\ entries[e].children # EmptyMap)
           => InParent(entries, e)


\* C37: the disposal of a handle on an entry other than the root hits no
\* unwrap or assert: when it finds the Stat at handle_count 0 with
\* delete_pending set, the parent reference upgrades and the entry is a value
\* of the parent's child map, and when it finds the bound stream at
\* handle_count 0 with delete_pending set, the stream is a value of the
\* entry's stream map.
C37_DisposalFindsWhatItRemoves ==
  ~aborted =>
    \A h \in DOMAIN handles :
      handles[h].entry # Root => ~DropHandle(Fs, h).aborted


(***************************************************************************)
(* Properties of download_pending under repeated opens (SpecReopen).        *)
(***************************************************************************)
\* C38: while a download task started for an HttpFile has not ended, the
\* entry's download_pending is true, also when the entry was opened several
\* times and one of its tasks ends before the others.
C38_PendingWhileAnyTaskRuns ==
  \A j \in DOMAIN jobs :
    jobs[j].st \in {"queued", "body"} => entries[jobs[j].entry].download_pending


(***************************************************************************)
(* Properties of Stat.delete_pending (SpecRace).                            *)
(***************************************************************************)
\* what drop() leaves of the flag: no entry that is still in a child map (nor
\* the root) has delete_pending set, and the disposal of a handle that is not
\* the last on its entry leaves the flag clear, delete-on-close or not
FlagNeverLeftInTree ==
  /\ \A e \in 1..Len(entries) :
       (e = Root \/ InParent(entries, e)) => ~entries[e].delete_pending
  /\ \A h \in DOMAIN handles :
       LET e == handles[h].entry
           r == DropHandle(Fs, h)
       IN (~r.aborted /\ r.entries[e].handle_count > 0) =>
            (~r.entries[e].delete_pending /\ (e = Root \/ InParent(r.entries, e)))

ReturnedDeletePending(t) == RaceDone(t) /\ wt[t].status = "DELETE_PENDING"

MaxEvaluations ==
  IF wt.budget > 0 THEN (wt.budget + wt.delay - 1) \div wt.delay ELSE 0

\* the parts of C40 that do not depend on when the condition became
\* satisfied: the number of evaluations, and the result by what the
\* evaluations found
TimeoutContract ==
  /\ wt.evals <= MaxEvaluations
  /\ wt.timeout > wt.budget - MaxEvaluations * wt.delay - wt.delay
  /\ wt.pc = "done" =>
       /\ (wt.res.status = "SUCCESS" /\ wt.timeout > 0) <=> wt.met
       /\ ~wt.met => wt.res.status = OnTimeoutResult(wt.on_timeout)
       /\ wt.budget <= 0 => (wt.evals = 0 /\ ~wt.met)

\* C40 as stated: wait_with_timeout ends after at most ceil(timeout/delay)
\* evaluations; it returns Ok with a positive remaining budget exactly when
\* an evaluation found the condition satisfied while budget remained, and
\* the on_timeout result (IO_TIMEOUT without a closure) otherwise, without
\* any evaluation when the budget is not positive at entry; and a condition
\* that becomes satisfied within the budget is reported as success.
C40_WaitWithTimeout ==
  wt.op = "wait_with_timeout" =>
    /\ TimeoutContract
    /\ (wt.pc = "done" /\ wt.within) => wt.res.status = "SUCCESS"

\* C40 as amended: the same, but only a condition that becomes satisfied
\* before the last sleep begins is reported as success; one that becomes
\* satisfied during the last sleep is reported as a timeout.
C40_WaitWithTimeoutUpToLastSleep ==
  wt.op = "wait_with_timeout" =>
    /\ TimeoutContract
    /\ (wt.pc = "done" /\ wt.early) => wt.res.status = "SUCCESS"
    /\ (wt.pc = "done" /\ wt.within /\ ~wt.early) =>
         wt.res.status = OnTimeoutResult(wt.on_timeout)

\* the condition was not satisfied at the first evaluation, became satisfied
\* while a further evaluation was still to come, and the call returned Ok
\* with budget left
C40_Witness ==
  /\ wt.op = "wait_with_timeout" /\ wt.pc = "done"
  /\ wt.evals >= 2 /\ wt.met /\ wt.early
  /\ wt.res.status = "SUCCESS" /\ wt.timeout > 0

====
